---- MODULE Spec2Model ----
(***************************************************************************)
(* State-machine model of the code-relationship graph indexer:             *)
(*   GraphDatabaseHandler  (graph_database/internal_graph_database.py)     *)
(*   AstManager, AstUpdateEdge (graph_database/ast_search/ast_manage.py)   *)
(*                                                                         *)
(* The Neo4j store is a record [nodes, rels, nextNode, nextRel]; a node is *)
(* [labels, full_name, props], a relationship is [start, type, end,       *)
(* props].  A dotted name "pkg.mod.Class" is the sequence of its           *)
(* components <<"pkg","mod","Class">>; a property map is a function from   *)
(* the property keys that are set to their values.                         *)
(***************************************************************************)
EXTENDS Integers, Sequences, FiniteSets, TLC

\* ------------------------------------------------------------------ bounds
\* most nodes the store may hold before creating calls are no longer issued
MaxNodes == 4
\* most relationships the store may hold before creating calls are issued
MaxRels == 3
\* most declared bases of one class in the generated hierarchies
MaxBases == 2
\* most imported names of one generated importing file
MaxImports == 2
\* most calls the worker processes issue in one behaviour
MaxCalls == 2
\* batch_size handed to clear_task_data (the code's default is 500)
BatchSize == 1
\* execute_query_with_timeout: the largest timeout, the time the clock
\* runs to, and the time a lock waiter is ready to wait, in ticks
MaxTimeout == 2
MaxTime == 3
WaitBudget == 1
\* max_workers of the ThreadPoolExecutor of build_graph_database
MaxWorkers == 2
\* the bases the classes of the propagation family list at most, in all
MaxListed == 3
MaxStored == 3

\* ------------------------------------------------------------- vocabulary
G1 == "g1"
G2 == "g2"
Generations == {G1, G2}
none_label == "none"
KindLabels == {"MODULE", "CLASS", "FUNCTION", "METHOD", "GLOBAL_VARIABLE", "FIELD"}
\* Python's None, as a node / relationship identity and as a full name
NoNode == 0
NoName == <<>>
NoProps == <<>>
FirstPolicies == {"lo", "hi"}

\* ---------------------------------------------------------------- helpers
SetMin(S) == CHOOSE x \in S : \A y \in S : x <= y
SetMax(S) == CHOOSE x \in S : \A y \in S : x >= y
Last(s) == s[Len(s)]
Front(s) == SubSeq(s, 1, Len(s) - 1)
Range(s) == {s[i] : i \in DOMAIN s}
\* dict.update: the keys of q override those of p
Merge(p, q) == [k \in (DOMAIN p) \cup (DOMAIN q) |-> IF k \in DOMAIN q THEN q[k] ELSE p[k]]
Prop(props, k) == IF k \in DOMAIN props THEN props[k] ELSE "<absent>"
HasProp(props, k) == k \in DOMAIN props
\* the subsets of S that a query with LIMIT n may return
Batches(S, n) == {B \in SUBSET S : Cardinality(B) = (IF Cardinality(S) < n THEN Cardinality(S) ELSE n)}

EmptyGraph == [nodes |-> <<>>, rels |-> <<>>, nextNode |-> 1, nextRel |-> 1]
NodeIds(g) == DOMAIN g.nodes
RelIds(g) == DOMAIN g.rels

\* ------------------------------------------------ GraphDatabaseHandler
\* .first() of a py2neo match: the store fixes no order, so either end of
\* the id order may come first.
First(S, sel) == IF S = {} THEN NoNode ELSE IF sel = "lo" THEN SetMin(S) ELSE SetMax(S)

\* a match by full_name alone, whatever the generation
MatchingNodes_any_generation(g, task_id, full_name) ==
  {n \in NodeIds(g) : g.nodes[n].full_name = full_name}

\* the nodes NodeMatcher.match(task_id, full_name=...) selects
MatchingNodes(g, task_id, full_name) ==
  {n \in NodeIds(g) : /\ g.nodes[n].full_name = full_name
                      /\ (task_id # "" => task_id \in g.nodes[n].labels)}

_match_node(g, task_id, full_name, sel) == First(MatchingNodes(g, task_id, full_name), sel)

\* _create_node: a fresh node labelled with the generation and the kind
\* (or 'none' when no kind is given)
NewNodeLabels(task_id, label) ==
  LET kind == IF label = "" THEN none_label ELSE label
  IN  IF task_id # "" THEN {task_id, kind} ELSE {kind}

_create_node(g, task_id, label, full_name, parms) ==
  [g EXCEPT !.nodes = g.nodes @@ (g.nextNode :> [labels |-> NewNodeLabels(task_id, label),
                                                 full_name |-> full_name,
                                                 props |-> parms]),
            !.nextNode = g.nextNode + 1]

\* 'SET n:' with an empty label is no Cypher: graph.run raises
LabelRejected(label) == label = ""

\* _update_node_label that sets the kind and leaves 'none' in place
_update_node_label_keeps_none(g, task_id, full_name, label, sel) ==
  [g EXCEPT !.nodes = [n \in NodeIds(g) |->
     IF /\ g.nodes[n].full_name = full_name
        /\ {none_label, task_id} \subseteq g.nodes[n].labels
     THEN [g.nodes[n] EXCEPT !.labels = @ \cup {label}]
     ELSE g.nodes[n]]]

\* _update_node_label: the Cypher statement rewrites every node that carries
\* 'none', the generation and the full name
_update_node_label(g, task_id, full_name, label, sel) ==
  IF _match_node(g, task_id, full_name, sel) = NoNode \/ LabelRejected(label) THEN g
  ELSE [g EXCEPT !.nodes = [n \in NodeIds(g) |->
          IF /\ g.nodes[n].full_name = full_name
             /\ {none_label, task_id} \subseteq g.nodes[n].labels
          THEN [g.nodes[n] EXCEPT !.labels = (@ \ {none_label}) \cup {label}]
          ELSE g.nodes[n]]]

\* _add_node_label: SET n:label on every node of the generation with the name
_add_node_label(g, task_id, full_name, new_label, sel) ==
  IF _match_node(g, task_id, full_name, sel) = NoNode \/ LabelRejected(new_label) THEN g
  ELSE [g EXCEPT !.nodes = [n \in NodeIds(g) |->
          IF g.nodes[n].full_name = full_name /\ task_id \in g.nodes[n].labels
          THEN [g.nodes[n] EXCEPT !.labels = @ \cup {new_label}]
          ELSE g.nodes[n]]]

\* existing_node.update(parms); graph.push(existing_node)
PushNodeProps(g, n, parms) == [g EXCEPT !.nodes[n].props = Merge(@, parms)]

\* update_node
update_node(g, task_id, full_name, parms, sel) ==
  LET existing_node == _match_node(g, task_id, full_name, sel)
  IN  IF existing_node # NoNode THEN PushNodeProps(g, existing_node, parms) ELSE g

\* add_node, given the node the match found (NoNode when none); when the
\* label statement raises, the update and the push are not reached
add_node_on(g, task_id, label, full_name, parms, existing_node, sel) ==
  IF existing_node # NoNode
  THEN LET g1 == IF none_label \in g.nodes[existing_node].labels
                 THEN _update_node_label(g, task_id, full_name, label, sel)
                 ELSE IF label \notin g.nodes[existing_node].labels
                      THEN _add_node_label(g, task_id, full_name, label, sel)
                      ELSE g
       IN  IF LabelRejected(label) THEN g ELSE PushNodeProps(g1, existing_node, parms)
  ELSE _create_node(g, task_id, label, full_name, parms)

add_node(g, task_id, label, full_name, parms, sel) ==
  add_node_on(g, task_id, label, full_name, parms, _match_node(g, task_id, full_name, sel), sel)

\* rel_matcher.match((start_node, end_node), relationship_type)
MatchingRels(g, start_node, relationship_type, end_node) ==
  {r \in RelIds(g) : /\ g.rels[r].start = start_node
                     /\ g.rels[r].end = end_node
                     /\ g.rels[r].type = relationship_type}

\* UpsertRel without the match: a relationship is created every time
UpsertRel_always_creates(g, start_node, relationship_type, end_node, params, sel) ==
  [g EXCEPT !.rels = g.rels @@ (g.nextRel :> [start |-> start_node,
                                              type |-> relationship_type,
                                              end |-> end_node,
                                              props |-> params]),
            !.nextRel = g.nextRel + 1]

\* the tail shared by add_edge and update_edge: update the first matching
\* relationship, or create one
UpsertRel(g, start_node, relationship_type, end_node, params, sel) ==
  LET rel == First(MatchingRels(g, start_node, relationship_type, end_node), sel)
  IN  IF rel # NoNode
      THEN [g EXCEPT !.rels[rel].props = Merge(@, params)]
      ELSE [g EXCEPT !.rels = g.rels @@ (g.nextRel :> [start |-> start_node,
                                                        type |-> relationship_type,
                                                        end |-> end_node,
                                                        props |-> params]),
                     !.nextRel = g.nextRel + 1]

\* add_edge, given the two nodes the matches found: both matches are read
\* before either node is created
add_edge_on(g, task_id, start_label, start_name, relationship_type, end_label, end_name, params, start_found, end_found, sel) ==
  LET g1 == IF start_found = NoNode
            THEN _create_node(g, task_id, start_label, start_name, params) ELSE g
      start_node == IF start_found = NoNode THEN g.nextNode ELSE start_found
      g2 == IF end_found = NoNode
            THEN _create_node(g1, task_id, end_label, end_name, params) ELSE g1
      end_node == IF end_found = NoNode THEN g1.nextNode ELSE end_found
  IN  UpsertRel(g2, start_node, relationship_type, end_node, params, sel)

add_edge(g, task_id, start_label, start_name, relationship_type, end_label, end_name, params, sel) ==
  add_edge_on(g, task_id, start_label, start_name, relationship_type, end_label, end_name,
              params, _match_node(g, task_id, start_name, sel),
              _match_node(g, task_id, end_name, sel), sel)

\* update_edge, given the two nodes the matches found: nothing is created
\* unless both exist
update_edge_on(g, relationship_type, params, start_found, end_found, sel) ==
  IF start_found # NoNode /\ end_found # NoNode
  THEN UpsertRel(g, start_found, relationship_type, end_found, params, sel)
  ELSE g

\* update_edge that creates the nodes it does not find, as add_edge does
update_edge_creates_missing(g, task_id, start_name, relationship_type, end_name, params, sel) ==
  add_edge(g, task_id, "", start_name, relationship_type, "", end_name, params, sel)

update_edge(g, task_id, start_name, relationship_type, end_name, params, sel) ==
  update_edge_on(g, relationship_type, params, _match_node(g, task_id, start_name, sel),
                 _match_node(g, task_id, end_name, sel), sel)

\* what update_edge returns: None unless both endpoints were found
update_edge_returns_rel(g, task_id, start_name, end_name, sel) ==
  /\ _match_node(g, task_id, start_name, sel) # NoNode
  /\ _match_node(g, task_id, end_name, sel) # NoNode

\* REMOVE_LABEL_QUERY_TEMPLATE: the nodes the MATCH ... WHERE selects
RemoveLabelMatches(g, label) ==
  {n \in NodeIds(g) : label \in g.nodes[n].labels /\ Cardinality(g.nodes[n].labels) > 1}

\* the DELETE query without its WHERE clause
DeleteNodeMatches_any_size(g, label) == {n \in NodeIds(g) : label \in g.nodes[n].labels}

\* DELETE_NODE_QUERY_TEMPLATE: the nodes the MATCH ... WHERE selects
DeleteNodeMatches(g, label) ==
  {n \in NodeIds(g) : label \in g.nodes[n].labels /\ Cardinality(g.nodes[n].labels) = 1}

\* REMOVE n:label on the batch B
RemoveLabel(g, label, B) ==
  [g EXCEPT !.nodes = [n \in NodeIds(g) |->
     IF n \in B THEN [g.nodes[n] EXCEPT !.labels = @ \ {label}] ELSE g.nodes[n]]]

\* DETACH DELETE on the batch B: the nodes go, and every relationship at them
DetachDelete(g, B) ==
  [g EXCEPT !.nodes = [n \in NodeIds(g) \ B |-> g.nodes[n]],
            !.rels = [r \in {q \in RelIds(g) : g.rels[q].start \notin B /\ g.rels[q].end \notin B}
                        |-> g.rels[r]]]

\* clear_database: MATCH (n) DETACH DELETE n
clear_database(g) == DetachDelete(g, NodeIds(g))

\* str.startswith and the slice s[len(prefix):], on strings as sequences of
\* characters
StartsWith(s, prefix) == Len(s) >= Len(prefix) /\ SubSeq(s, 1, Len(prefix)) = prefix
StripPrefix(s, prefix) == SubSeq(s, Len(prefix) + 1, Len(s))

\* the rows the query of update_file_path returns: one per node of the
\* handler's generation that has a file_path
FilePathRows(g, task_id) ==
  {[n |-> n, full_name |-> g.nodes[n].full_name, file_path |-> g.nodes[n].props["file_path"]] :
     n \in {x \in NodeIds(g) : task_id \in g.nodes[x].labels /\ HasProp(g.nodes[x].props, "file_path")}}

\* one iteration of the loop of update_file_path on a row of the result
update_file_path_row(g, task_id, root_path, row, sel) ==
  IF StartsWith(row.file_path, root_path)
  THEN update_node(g, task_id, row.full_name,
                   ("file_path" :> StripPrefix(row.file_path, root_path)), sel)
  ELSE g

\* ------------------------------------------------------------ AstManager
\* the kind label the query helpers report: next(lbl for lbl in labels if
\* lbl in [...]); the store fixes no label order
KindOrder == <<"MODULE", "CLASS", "FUNCTION", "METHOD", "GLOBAL_VARIABLE", "FIELD">>
KindRank(k) == CHOOSE i \in DOMAIN KindOrder : KindOrder[i] = k
KindOf_generation(labels, sel) == CHOOSE l \in labels : l \notin KindLabels
KindOf(labels, sel) ==
  LET ranks == {KindRank(k) : k \in labels \cap KindLabels}
  IN  KindOrder[First(ranks, sel)]

\* (m:MODULE:task {full_name})-[:CONTAINS]->(c:task): the nodes c
ModuleContains(g, task_id, module_full_name) ==
  {c \in NodeIds(g) :
     /\ task_id \in g.nodes[c].labels
     /\ \E r \in RelIds(g) :
          /\ g.rels[r].type = "CONTAINS"
          /\ g.rels[r].end = c
          /\ g.nodes[g.rels[r].start].full_name = module_full_name
          /\ {"MODULE", task_id} \subseteq g.nodes[g.rels[r].start].labels}

\* get_full_name_from_graph: [full_name, label] of the first row, or
\* [full_name |-> NoName] for (None, None)
get_full_name_from_graph(g, task_id, module_full_name, target_name, sel) ==
  LET rows == {c \in ModuleContains(g, task_id, module_full_name) :
                 HasProp(g.nodes[c].props, "name") /\ g.nodes[c].props["name"] = target_name}
      c0 == First(rows, sel)
  IN  IF rows = {} THEN [full_name |-> NoName, label |-> ""]
      ELSE [full_name |-> g.nodes[c0].full_name, label |-> KindOf(g.nodes[c0].labels, sel)]

\* get_all_name_from_graph: the rows [full_name, label]; {} stands for None
get_all_name_from_graph(g, task_id, module_full_name, sel) ==
  {[full_name |-> g.nodes[c].full_name, label |-> KindOf(g.nodes[c].labels, sel)] :
     c \in ModuleContains(g, task_id, module_full_name)}

\* (c:CLASS:task {full_name})-[r:HAS_METHOD|HAS_FIELD]->(m:task): the
\* relationships r
ClassMemberRels(g, task_id, class_full_name) ==
  {r \in RelIds(g) :
     /\ g.rels[r].type \in {"HAS_METHOD", "HAS_FIELD"}
     /\ g.nodes[g.rels[r].start].full_name = class_full_name
     /\ {"CLASS", task_id} \subseteq g.nodes[g.rels[r].start].labels
     /\ task_id \in g.nodes[g.rels[r].end].labels}

\* get_all_edge_of_class: the rows (full_name, name, relationship_type); {}
\* stands for None
get_all_edge_of_class(g, task_id, class_full_name) ==
  {[full_name |-> g.nodes[g.rels[r].end].full_name,
    name |-> Prop(g.nodes[g.rels[r].end].props, "name"),
    type |-> g.rels[r].type] : r \in ClassMemberRels(g, task_id, class_full_name)}

\* check_exist_edge_of_class: the member full names; {} stands for None
check_exist_edge_of_class(g, task_id, class_full_name, node_name) ==
  {g.nodes[g.rels[r].end].full_name :
     r \in {q \in ClassMemberRels(g, task_id, class_full_name) :
              /\ HasProp(g.nodes[g.rels[q].end].props, "name")
              /\ g.nodes[g.rels[q].end].props["name"] = node_name}}

\* ordered dict class_inherited: a sequence of [k, v] in insertion order
DictHas(d, k) == \E i \in DOMAIN d : d[i].k = k
DictGet(d, k) == d[CHOOSE i \in DOMAIN d : d[i].k = k].v
DictKeys(d) == [i \in DOMAIN d |-> d[i].k]
DictSet(d, k, v) ==
  IF DictHas(d, k)
  THEN [i \in DOMAIN d |-> IF d[i].k = k THEN [k |-> k, v |-> v] ELSE d[i]]
  ELSE Append(d, [k |-> k, v |-> v])
\* d[k].append(x), creating the key with [] first
DictAppend(d, k, x) == DictSet(d, k, Append(IF DictHas(d, k) THEN DictGet(d, k) ELSE <<>>, x))
\* d.update(e)
RECURSIVE DictUpdate(_, _)
DictUpdate(d, e) ==
  IF e = <<>> THEN d ELSE DictUpdate(DictSet(d, e[1].k, e[1].v), Tail(e))

\* InheritMember without the override check
InheritMember_unchecked(g, task_id, cur_class_full_name, row, sel) ==
  update_edge(g, task_id, cur_class_full_name, row.type, row.full_name, NoProps, sel)

\* the override check and the copy of one member row of the base class
InheritMember(g, task_id, cur_class_full_name, row, sel) ==
  IF check_exist_edge_of_class(g, task_id, cur_class_full_name, row.name) = {}
  THEN update_edge(g, task_id, cur_class_full_name, row.type, row.full_name, NoProps, sel)
  ELSE g

\* for node_full_name, name, type in methods
RECURSIVE InheritMembers(_, _, _, _, _)
InheritMembers(g, task_id, cur_class_full_name, methods, sel) ==
  IF methods = {} THEN g
  ELSE LET row == CHOOSE m \in methods : TRUE
       IN  InheritMembers(InheritMember(g, task_id, cur_class_full_name, row, sel),
                          task_id, cur_class_full_name, methods \ {row}, sel)

\* whether _build_inherited_method goes on to the bases of the base class
\* after fetching the base's member rows
DescendsIntoBases(methods, class_inherited, base_class_full_name) ==
  methods # {} /\ DictHas(class_inherited, base_class_full_name)

\* _build_inherited_method on s = [graph, processed_relations]
RECURSIVE _build_inherited_method(_, _, _, _, _, _)
RECURSIVE InheritFromBases(_, _, _, _, _, _)
_build_inherited_method(s, class_inherited, task_id, cur_class_full_name, base_class_full_name, sel) ==
  LET relation_key == <<cur_class_full_name, base_class_full_name>>
  IN  IF relation_key \in s.processed_relations THEN s
      ELSE LET s1 == [s EXCEPT !.processed_relations = @ \cup {relation_key}]
               methods == get_all_edge_of_class(s1.graph, task_id, base_class_full_name)
               s2 == [s1 EXCEPT !.graph = InheritMembers(@, task_id, cur_class_full_name,
                                                         methods, sel)]
           IN  IF DescendsIntoBases(methods, class_inherited, base_class_full_name)
               THEN InheritFromBases(s2, class_inherited, task_id, cur_class_full_name,
                                     DictGet(class_inherited, base_class_full_name), sel)
               ELSE s2

InheritFromBases(s, class_inherited, task_id, cur_class_full_name, bases, sel) ==
  IF bases = <<>> THEN s
  ELSE InheritFromBases(
         _build_inherited_method(s, class_inherited, task_id, cur_class_full_name,
                                 bases[1], sel),
         class_inherited, task_id, cur_class_full_name, Tail(bases), sel)

\* _build_modules_contain_edge: the graph afterwards, and whether it returns True
ContainEdgeFound(g, task_id, target_module_full_name, target_name, sel) ==
  get_full_name_from_graph(g, task_id, target_module_full_name, target_name, sel).full_name
     # NoName

_build_modules_contain_edge_links_unresolved(g, task_id, target_module_full_name, target_name, cur_module_full_name, sel) ==
  LET t == get_full_name_from_graph(g, task_id, target_module_full_name, target_name, sel)
  IN  add_edge(g, task_id, "MODULE", cur_module_full_name, "CONTAINS", "",
               IF t.full_name = NoName THEN Append(target_module_full_name, target_name)
               ELSE t.full_name,
               ("association_type" :> t.label), sel)

_build_modules_contain_edge(g, task_id, target_module_full_name, target_name, cur_module_full_name, sel) ==
  LET t == get_full_name_from_graph(g, task_id, target_module_full_name, target_name, sel)
  IN  IF t.full_name = NoName THEN g
      ELSE add_edge(g, task_id, "MODULE", cur_module_full_name, "CONTAINS", "", t.full_name,
                    ("association_type" :> t.label), sel)

\* _build_modules_contain_edge_all: one add_edge per row of the target list
RECURSIVE AddContainsRows(_, _, _, _, _)
AddContainsRows(g, task_id, cur_module_full_name, target_list, sel) ==
  IF target_list = {} THEN g
  ELSE LET t == CHOOSE x \in target_list : TRUE
       IN  CHOOSE after \in
             {AddContainsRows(linked, task_id, cur_module_full_name, rest, sel) :
                linked \in {add_edge(g, task_id, "MODULE", cur_module_full_name, "CONTAINS", "",
                                     t.full_name, ("association_type" :> t.label), sel)},
                rest \in {target_list \ {t}}} : TRUE

ContainAllFound(g, task_id, target_module_full_name, sel) ==
  get_all_name_from_graph(g, task_id, target_module_full_name, sel) # {}

_build_modules_contain_edge_all(g, task_id, target_module_full_name, cur_module_full_name, sel) ==
  AddContainsRows(g, task_id, cur_module_full_name,
                  get_all_name_from_graph(g, task_id, target_module_full_name, sel), sel)

\* A source file is the sequence of its path components below the root,
\* the last one without ".py": a.py is <<"a">>, p/__init__.py is
\* <<"p", "__init__">>.
IsInitFile(file_full_path) == Last(file_full_path) = "__init__"
\* get_dotted_name of the file, or of its directory for a package init file
get_dotted_name(file_full_path) ==
  IF IsInitFile(file_full_path) THEN Front(file_full_path) ELSE file_full_path
\* os.path.join(root, module_name_to_path(module), '__init__.py')
InitFileOf(module_full_name) == Append(module_full_name, "__init__")

\* build_modules_contain on s = [graph, visited]; files maps each existing
\* file to [ok, imports, classes], imports being the (resolved target
\* module, imported name) pairs of its ImportFrom statements in ast.walk
\* order
RECURSIVE build_modules_contain(_, _, _, _, _)
RECURSIVE ContainImports(_, _, _, _, _, _)
\* one imported name: try, build the target package's __init__ file when the
\* try found nothing, then try again
ContainImport(s, files, task_id, cur_module_full_name, imp, sel) ==
  LET found == IF imp.name = "*"
               THEN ContainAllFound(s.graph, task_id, imp.module, sel)
               ELSE ContainEdgeFound(s.graph, task_id, imp.module, imp.name, sel)
      Try(g) == IF imp.name = "*"
                THEN _build_modules_contain_edge_all(g, task_id, imp.module,
                                                     cur_module_full_name, sel)
                ELSE _build_modules_contain_edge(g, task_id, imp.module, imp.name,
                                                 cur_module_full_name, sel)
      s1 == [s EXCEPT !.graph = Try(@)]
      s2 == IF ~found /\ InitFileOf(imp.module) \in DOMAIN files
            THEN build_modules_contain(s1, files, task_id, InitFileOf(imp.module), sel)
            ELSE s1
  IN  [s2 EXCEPT !.graph = Try(@)]

ContainImports(s, files, task_id, cur_module_full_name, imports, sel) ==
  IF imports = <<>> THEN s
  ELSE ContainImports(
         IF imports[1].module = NoName THEN s
         ELSE ContainImport(s, files, task_id, cur_module_full_name, imports[1], sel),
         files, task_id, cur_module_full_name, Tail(imports), sel)

build_modules_contain_reads_any_file(s, files, task_id, file_full_path, sel) ==
  IF file_full_path \in Range(s.visited) THEN s
  ELSE ContainImports([s EXCEPT !.visited = Append(@, file_full_path)], files, task_id,
                      get_dotted_name(file_full_path), files[file_full_path].imports, sel)

build_modules_contain(s, files, task_id, file_full_path, sel) ==
  IF file_full_path \in Range(s.visited) THEN s
  ELSE LET s1 == [s EXCEPT !.visited = Append(@, file_full_path)]
       IN  IF ~files[file_full_path].ok THEN s1
           ELSE ContainImports(s1, files, task_id, get_dotted_name(file_full_path),
                               files[file_full_path].imports, sel)

\* build_inherited on s = [graph, class_inherited]; classes are the
\* ClassDef nodes of the file in ast.walk order, each with its base
\* expressions [simple, id] (simple: the base is an ast.Name)
InheritBase(s, task_id, cur_module_full_name, cur_class_full_name, base, sel) ==
  IF ~base.simple THEN s
  ELSE LET b == get_full_name_from_graph(s.graph, task_id, cur_module_full_name, base.id, sel)
           s1 == [s EXCEPT !.class_inherited = DictAppend(@, cur_class_full_name, b.full_name)]
       IN  IF b.full_name # NoName
           THEN [s1 EXCEPT !.graph = update_edge(@, task_id, cur_class_full_name, "INHERITS",
                                                 b.full_name, NoProps, sel)]
           ELSE s1

RECURSIVE InheritBases(_, _, _, _, _, _)
InheritBases(s, task_id, cur_module_full_name, cur_class_full_name, bases, sel) ==
  IF bases = <<>> THEN s
  ELSE InheritBases(InheritBase(s, task_id, cur_module_full_name, cur_class_full_name,
                                bases[1], sel),
                    task_id, cur_module_full_name, cur_class_full_name, Tail(bases), sel)

RECURSIVE InheritClasses(_, _, _, _, _)
InheritClasses(s, task_id, cur_module_full_name, classes, sel) ==
  IF classes = <<>> THEN s
  ELSE InheritClasses(
         InheritBases(s, task_id, cur_module_full_name,
                      Append(cur_module_full_name, classes[1].name), classes[1].bases, sel),
         task_id, cur_module_full_name, Tail(classes), sel)

build_inherited(s, files, task_id, file_full_path, sel) ==
  IF ~files[file_full_path].ok THEN s
  ELSE InheritClasses(s, task_id, get_dotted_name(file_full_path),
                      files[file_full_path].classes, sel)

\* ------------------------------------------------------------------ state
VARIABLES
  graph,                \* the Neo4j store shared by every handler
  files,                \* the source tree: file -> [ok, imports, classes, symbols]
  py_files,             \* the file list handed to AstManager._run, in order
  task_id,              \* AstManager.task_id
  visited,              \* AstManager.visited
  class_inherited,      \* AstManager.class_inherited
  processed_relations,  \* AstManager.processed_relations
  pc,                   \* position of the running pass: [phase, i, j]
  pulled_inherited,     \* AstUpdateEdge.class_inherited
  lock,                 \* the process that holds the lockfile, or NoHolder
  workers,              \* per worker process: [pc, task_id, op, calls, lock_acquired,
                        \* rows] of its handler and of the call it is in
  future_to_file,       \* build_graph_database: file -> its future in the executor
  sessions,             \* AstManager instances that run side by side, by task_id:
                        \* [files, py_files, visited, class_inherited,
                        \* processed_relations, pc] of each
  query,                \* execute_query_with_timeout: [timeout, elapsed, future, value,
                        \* response, flag, timed_out] of the call under way
  connection,           \* [reachable]: whether the store answers; [read_failed]:
                        \* history, a query that got no answer changed a pass
  snap,                 \* history: the store as it was at an earlier point
  container,            \* DIContainer: [instances, created] and, per thread, the
                        \* position of its resolve call and what it holds
  workflow,             \* Workflow.execute: the steps' status, the order in which
                        \* steps ran, and the stack of _execute_step calls
  bus                   \* EventBus: [subscribers] and the publish under way

vars == <<graph, files, py_files, task_id, visited, class_inherited, processed_relations,
          pc, pulled_inherited, lock, workers, query, sessions, connection, future_to_file, snap,
          container, workflow, bus>>

\* no AstManager runs beside the session
NoSessions == <<>>
\* no container, workflow or event bus takes part
NoContainer == <<>>
NoWorkflow == <<>>
NoBus == <<>>
NoApp == container = NoContainer /\ workflow = NoWorkflow /\ bus = NoBus

\* no execute_query_with_timeout is under way
NoQuery ==
  [timeout |-> 0, elapsed |-> 0, future |-> "none",
   value |-> [response |-> [rows |-> {}, text |-> ""], flag |-> FALSE],
   response |-> [rows |-> {}, text |-> ""], flag |-> FALSE, timed_out |-> FALSE]

\* the store answers, and no query has gone unanswered
Connected == [reachable |-> TRUE, read_failed |-> FALSE]

\* a session that runs alone: no worker process is alive
NoHolder == "nobody"
NoWorkers ==
  /\ lock = NoHolder
  /\ connection = Connected
  /\ NoApp
  /\ query = NoQuery
  /\ sessions = NoSessions
  /\ workers = <<>>
  /\ future_to_file = <<>>
\* no reconciliation is under way
NoUpdate == pulled_inherited = <<>>

\* ------------------------------------------------- the indexed source tree
\* The per-file indexer records every symbol of a file through the
\* handler: the node with its name and file_path, and the relationship
\* from its parent (module CONTAINS symbol, class HAS_METHOD member).
NodeProps(full_name, file_full_path) ==
  ("name" :> Last(full_name)) @@ ("file_path" :> file_full_path)

ModuleSym(m, file_full_path) ==
  [kind |-> "MODULE", full_name |-> m, rel |-> "", file |-> file_full_path]
TopSym(kind, m, name, file_full_path) ==
  [kind |-> kind, full_name |-> Append(m, name), rel |-> "CONTAINS", file |-> file_full_path]
MethodSym(class_full_name, name, file_full_path) ==
  [kind |-> "METHOD", full_name |-> Append(class_full_name, name), rel |-> "HAS_METHOD",
   file |-> file_full_path]

\* the symbols of the files that could be read, file after file
RECURSIVE AllSymbols(_, _)
AllSymbols(fs, order) ==
  IF order = <<>> THEN <<>>
  ELSE (IF fs[order[1]].ok THEN fs[order[1]].symbols ELSE <<>>) \o AllSymbols(fs, Tail(order))

IsMemberSym(y) == y.kind # "MODULE"
\* the store after the indexer has recorded the symbols in generation task:
\* node i is symbol i, relationship j leads from the parent of the j-th
\* symbol that is no module to that symbol
IndexedGraph(task, syms) ==
  LET below == SelectSeq(syms, IsMemberSym)
      At(full_name) == CHOOSE i \in DOMAIN syms : syms[i].full_name = full_name
  IN  [nodes |-> [i \in DOMAIN syms |->
                    [labels |-> {task, syms[i].kind},
                     full_name |-> syms[i].full_name,
                     props |-> NodeProps(syms[i].full_name, syms[i].file)]],
       rels |-> [j \in DOMAIN below |->
                   [start |-> At(Front(below[j].full_name)),
                    type |-> below[j].rel,
                    end |-> At(below[j].full_name),
                    props |-> NoProps]],
       nextNode |-> Len(syms) + 1,
       nextRel |-> Len(below) + 1]

Injective(s) == \A i, j \in DOMAIN s : i # j => s[i] # s[j]
SeqsUpTo(S, n) == UNION {{s \in [1..k -> S] : Injective(s)} : k \in 0..n}
Perms(S) == {s \in [1..Cardinality(S) -> S] : Injective(s)}

\* ---------------------------------------------- class hierarchies (_run)
\* Classes A, B, C, D, each alone in its module a, b, c, d; a class imports
\* each of its bases by name from the base's module.  A declares a method
\* m, and so does every class of the set own.  A has no bases, so it never
\* becomes a key of class_inherited: its file comes first, and the files of
\* the other classes follow in every order.
Classes == <<"A", "B", "C", "D">>
ClassSet == Range(Classes)
ModuleOf(c) == IF c = "A" THEN <<"a">> ELSE IF c = "B" THEN <<"b">>
               ELSE IF c = "C" THEN <<"c">> ELSE <<"d">>
ClassName(c) == Append(ModuleOf(c), c)
ClassIndex(c) == CHOOSE i \in DOMAIN Classes : Classes[i] = c
EarlierClasses(c) == {Classes[i] : i \in 1..(ClassIndex(c) - 1)}

ClassFile(c, bases, declares) ==
  [ok |-> TRUE,
   imports |-> [i \in DOMAIN bases |-> [module |-> ModuleOf(bases[i]), name |-> bases[i]]],
   classes |-> <<[name |-> c, bases |-> [i \in DOMAIN bases |-> [simple |-> TRUE, id |-> bases[i]]]]>>,
   symbols |-> <<ModuleSym(ModuleOf(c), ModuleOf(c)), TopSym("CLASS", ModuleOf(c), c, ModuleOf(c))>>
               \o (IF declares THEN <<MethodSym(ClassName(c), "m", ModuleOf(c))>> ELSE <<>>)]

Hierarchies == {h \in [ClassSet -> SeqsUpTo(ClassSet, MaxBases)] :
                  \A c \in ClassSet : Range(h[c]) \subseteq EarlierClasses(c)}

HierarchyFiles(h, own) ==
  [f \in {ModuleOf(c) : c \in ClassSet} |->
     LET cls == CHOOSE x \in ClassSet : ModuleOf(x) = f
     IN  ClassFile(cls, h[cls], cls = "A" \/ cls \in own)]

FreshSession ==
  /\ visited = <<>>
  /\ class_inherited = <<>>
  /\ processed_relations = {}
  /\ pc = [phase |-> "contain", i |-> 1, j |-> 1]

InitRun ==
  /\ \E h \in Hierarchies, declaring \in SUBSET (ClassSet \ {"A"}) :
       files = HierarchyFiles(h, declaring)
  /\ \E rest \in Perms(DOMAIN files \ {ModuleOf("A")}) : py_files = <<ModuleOf("A")>> \o rest
  /\ task_id = G1
  /\ graph = IndexedGraph(G1, AllSymbols(files, [i \in DOMAIN Classes |-> ModuleOf(Classes[i])]))
  /\ FreshSession
  /\ snap = EmptyGraph
  /\ NoWorkers
  /\ NoUpdate

\* ------------------------------------------------------- AstManager._run
\* Within one session every match of the passes finds at most one node per
\* full name, so which row a .first() takes is fixed.
PassPolicies == {"lo"}

\* What a query of the session returns: execute_query answers '' when the
\* store cannot be reached, and the query helpers take that for no row.
StoreView == IF connection.reachable THEN graph ELSE EmptyGraph
\* A write of the session goes to py2neo, which raises when the store
\* cannot be reached; g is the store the pass computed on StoreView.
WriteRaises(g) == ~connection.reachable /\ g # EmptyGraph
Written(g) == IF connection.reachable THEN g ELSE graph
\* history: the pass went on after a query without answer, where the
\* answer would have made a difference
ReadFailed(differs) == [connection EXCEPT !.read_failed = @ \/ (~connection.reachable /\ differs)]
Aborted == [pc EXCEPT !.phase = "aborted"]

\* self.build_modules_contain(py_file) of the first loop of _run
ContainFile(py_file) ==
  \E sel \in PassPolicies :
     LET s == build_modules_contain([graph |-> StoreView, visited |-> visited], files, task_id,
                                    py_file, sel)
     IN  /\ graph' = Written(s.graph)
         /\ visited' = s.visited

\* for py_file in py_files: self.build_modules_contain(py_file)
RunContain ==
  /\ pc.phase = "contain"
  /\ \E sel \in PassPolicies :
       LET s == build_modules_contain([graph |-> StoreView, visited |-> visited], files,
                                      task_id, py_files[pc.i], sel)
           answered == build_modules_contain([graph |-> graph, visited |-> visited], files,
                                             task_id, py_files[pc.i], sel)
       IN  /\ graph' = Written(s.graph)
           /\ visited' = s.visited
           /\ connection' = ReadFailed(answered.graph # graph \/ answered.visited # s.visited)
           /\ pc' = IF WriteRaises(s.graph) THEN Aborted
                    ELSE IF pc.i < Len(py_files) THEN [pc EXCEPT !.i = @ + 1]
                    ELSE [phase |-> "inherit", i |-> 1, j |-> 1]
  /\ UNCHANGED <<files, py_files, task_id, class_inherited, processed_relations, snap, lock, workers, query, sessions, future_to_file, pulled_inherited, container, workflow, bus>>

\* where the propagation loops stand after the pair (i, j) of class_inherited
NextPair(d, i, j) ==
  IF i >= 1 /\ i <= Len(d) /\ j < Len(d[i].v) THEN [phase |-> "propagate", i |-> i, j |-> j + 1]
  ELSE IF \E k \in (i + 1)..Len(d) : d[k].v # <<>>
       THEN [phase |-> "propagate",
             i |-> SetMin({k \in (i + 1)..Len(d) : d[k].v # <<>>}), j |-> 1]
       ELSE [phase |-> "done", i |-> 1, j |-> 1]

\* for py_file in py_files: self.build_inherited(py_file)
RunInherited ==
  /\ pc.phase = "inherit"
  /\ \E sel \in PassPolicies :
       LET s == build_inherited([graph |-> StoreView, class_inherited |-> class_inherited],
                                files, task_id, py_files[pc.i], sel)
           answered == build_inherited([graph |-> graph, class_inherited |-> class_inherited],
                                       files, task_id, py_files[pc.i], sel)
       IN  /\ graph' = Written(s.graph)
           /\ class_inherited' = s.class_inherited
           /\ connection' = ReadFailed(\/ answered.graph # graph
                                       \/ answered.class_inherited # s.class_inherited)
           /\ pc' = IF WriteRaises(s.graph) THEN Aborted
                    ELSE IF pc.i < Len(py_files) THEN [pc EXCEPT !.i = @ + 1]
                    ELSE NextPair(s.class_inherited, 0, 0)
  /\ UNCHANGED <<files, py_files, task_id, visited, processed_relations, snap, lock, workers, query, sessions, future_to_file, pulled_inherited, container, workflow, bus>>

\* one top-level self._build_inherited_method(cur, base) of the loops over
\* class_inherited
RunPropagate ==
  /\ pc.phase = "propagate"
  /\ \E sel \in PassPolicies :
       LET s == _build_inherited_method(
                  [graph |-> StoreView, processed_relations |-> processed_relations],
                  class_inherited, task_id, class_inherited[pc.i].k,
                  class_inherited[pc.i].v[pc.j], sel)
           answered == _build_inherited_method(
                         [graph |-> graph, processed_relations |-> processed_relations],
                         class_inherited, task_id, class_inherited[pc.i].k,
                         class_inherited[pc.i].v[pc.j], sel)
       IN  /\ graph' = Written(s.graph)
           /\ processed_relations' = s.processed_relations
           /\ connection' = ReadFailed(\/ answered.graph # graph
                                       \/ answered.processed_relations # s.processed_relations)
           /\ pc' = IF WriteRaises(s.graph) THEN Aborted
                    ELSE NextPair(class_inherited, pc.i, pc.j)
  /\ UNCHANGED <<files, py_files, task_id, visited, class_inherited, snap, lock, workers, query, sessions, future_to_file, pulled_inherited, container, workflow, bus>>

NextRun == RunContain \/ RunInherited \/ RunPropagate

SpecRun == InitRun /\ [][NextRun]_vars

\* ------------------------------------------- import graphs (containment)
\* Three modules: k defines the function foo; m (a plain module m.py or a
\* package m/__init__.py) defines f and g and may import from k or n; n
\* defines nothing and imports up to MaxImports names.
FileK == <<"k">>
FileN == <<"n">>
MFiles == {<<"m">>, <<"m", "__init__">>}
Imp(module, name) == [module |-> module, name |-> name]
ImportsOfM == {<<>>, <<Imp(<<"k">>, "foo")>>, <<Imp(<<"k">>, "*")>>, <<Imp(<<"n">>, "*")>>}
NamesForN == {Imp(<<"m">>, "*"), Imp(<<"m">>, "f"), Imp(<<"m">>, "foo"), Imp(<<"m">>, "zzz"),
              Imp(<<"k">>, "foo")}
ImportsOfN == SeqsUpTo(NamesForN, MaxImports) \ {<<>>}

SourceFile(imports, symbols) ==
  [ok |-> TRUE, imports |-> imports, classes |-> <<>>, symbols |-> symbols]

ImportFiles(file_m, imports_m, imports_n) ==
  (FileK :> SourceFile(<<>>, <<ModuleSym(<<"k">>, FileK), TopSym("FUNCTION", <<"k">>, "foo", FileK)>>))
  @@ (file_m :> SourceFile(imports_m, <<ModuleSym(<<"m">>, file_m),
                                          TopSym("FUNCTION", <<"m">>, "f", file_m),
                                          TopSym("FUNCTION", <<"m">>, "g", file_m)>>))
  @@ (FileN :> SourceFile(imports_n, <<ModuleSym(<<"n">>, FileN)>>))

InitContain ==
  /\ \E file_m \in MFiles, imports_m \in ImportsOfM, imports_n \in ImportsOfN :
       /\ files = ImportFiles(file_m, imports_m, imports_n)
       /\ graph = IndexedGraph(G1, AllSymbols(files, <<FileK, file_m, FileN>>))
  /\ py_files \in Perms(DOMAIN files)
  /\ task_id = G1
  /\ visited = <<>>
  /\ class_inherited = <<>>
  /\ processed_relations = {}
  /\ pc = [phase |-> "contain", i |-> 1, run |-> 1, grown |-> FALSE]
  /\ snap = EmptyGraph
  /\ NoWorkers
  /\ NoUpdate

\* one file of the containment pass of the session
PassContain ==
  /\ pc.phase = "contain"
  /\ ContainFile(py_files[pc.i])
  /\ pc' = IF pc.i < Len(py_files) THEN [pc EXCEPT !.i = @ + 1]
           ELSE [pc EXCEPT !.phase = IF pc.run = 1 THEN "between" ELSE "done"]
  /\ UNCHANGED <<files, py_files, task_id, class_inherited, processed_relations, snap, lock, workers, query, sessions, connection, future_to_file, pulled_inherited, container, workflow, bus>>

\* between two passes the source of m gains a function h, and the indexer
\* records it
FileOfM == CHOOSE f \in DOMAIN files : f \in MFiles
SymbolGrows ==
  /\ pc.phase = "between"
  /\ ~pc.grown
  /\ LET h == TopSym("FUNCTION", <<"m">>, "h", FileOfM)
         withNode == add_node(graph, task_id, "FUNCTION", h.full_name,
                              NodeProps(h.full_name, FileOfM), "lo")
     IN  /\ graph' = add_edge(withNode, task_id, "MODULE", <<"m">>, "CONTAINS", "FUNCTION",
                              h.full_name, NoProps, "lo")
         /\ files' = [files EXCEPT ![FileOfM].symbols = Append(@, h)]
  /\ pc' = [pc EXCEPT !.grown = TRUE]
  /\ UNCHANGED <<py_files, task_id, visited, class_inherited, processed_relations, snap, lock, workers, query, sessions, connection, future_to_file, pulled_inherited, container, workflow, bus>>

\* a second pass starts with a fresh AstManager on the same store
NewSession ==
  /\ pc.phase = "between"
  /\ visited' = <<>>
  /\ class_inherited' = <<>>
  /\ processed_relations' = {}
  /\ pc' = [pc EXCEPT !.phase = "contain", !.i = 1, !.run = 2]
  /\ snap' = graph
  /\ UNCHANGED <<graph, files, py_files, task_id, lock, workers, query, sessions, connection, future_to_file, pulled_inherited, container, workflow, bus>>

NextContain == PassContain \/ SymbolGrows \/ NewSession

SpecContain == InitContain /\ [][NextContain]_vars

\* ------------------------------------- worker processes on a shared store
\* Worker processes, each with its own GraphDatabaseHandler(use_lock=True)
\* on the same lockfile, issue calls against stores that hold the symbols a
\* and b in one or both generations.
Workers == {"w1", "w2"}
Names == {<<"a">>, <<"b">>}
CallLabels == {"", "FUNCTION", "CLASS"}
CallParams == {NoProps, ("note" :> "x")}

StoredNode(labels, full_name) ==
  [labels |-> labels, full_name |-> full_name, props |-> ("name" :> Last(full_name))]
RootPath == <<"/", "r">>
StoredFile(labels, full_name, file_path) ==
  [labels |-> labels, full_name |-> full_name,
   props |-> ("name" :> Last(full_name)) @@ ("file_path" :> file_path)]
StoredRel(start_node, end_node) ==
  [start |-> start_node, type |-> "CALL", end |-> end_node, props |-> NoProps]
StoredGraph(nodes, rels) ==
  [nodes |-> nodes, rels |-> rels, nextNode |-> Len(nodes) + 1, nextRel |-> Len(rels) + 1]

\* an unchanged symbol carries both generations; a changed one has a node
\* per generation
StoredGraphs ==
  { EmptyGraph,
    StoredGraph(<<StoredNode({G1, "FUNCTION"}, <<"a">>)>>, <<>>),
    StoredGraph(<<StoredNode({G1, G2, "FUNCTION"}, <<"a">>)>>, <<>>),
    StoredGraph(<<StoredNode({G1, "FUNCTION"}, <<"a">>),
                  StoredNode({G1, G2, "FUNCTION"}, <<"b">>)>>, <<StoredRel(1, 2)>>),
    StoredGraph(<<StoredNode({G1, G2, "FUNCTION"}, <<"a">>),
                  StoredNode({G1, G2, "FUNCTION"}, <<"b">>)>>, <<StoredRel(1, 2)>>),
    StoredGraph(<<StoredNode({G1, G2, "FUNCTION"}, <<"a">>),
                  StoredNode({G2, "FUNCTION"}, <<"b">>)>>, <<StoredRel(1, 2)>>),
    StoredGraph(<<StoredNode({G1, "FUNCTION"}, <<"a">>),
                  StoredNode({G2, "FUNCTION"}, <<"a">>),
                  StoredNode({G1, G2, "FUNCTION"}, <<"b">>)>>,
                <<StoredRel(1, 3), StoredRel(2, 3)>>),
    StoredGraph(<<StoredFile({G1, "FUNCTION"}, <<"a">>, <<"/", "r", "/", "a">>),
                  StoredFile({G1, G2, "FUNCTION"}, <<"b">>, <<"/", "q", "/", "b">>)>>,
                <<StoredRel(1, 2)>>) }

Call(call, label, start_name, end_name, params, task) ==
  [call |-> call, label |-> label, start_name |-> start_name, end_name |-> end_name,
   params |-> params, task |-> task]
NoCall == Call("", "", NoName, NoName, NoProps, "")
Calls ==
  {Call("add_node", l, n, NoName, NoProps, "") : l \in CallLabels, n \in Names}
  \cup {Call("add_node", "FUNCTION", <<"a">>, NoName,
             ("file_path" :> RootPath \o <<"/", "x">>), "")}
  \cup {Call("add_edge", "", n, m, p, "") : n \in Names, m \in Names, p \in CallParams}
  \cup {Call("update_edge", "", n, m, ("note" :> "y"), "") : n \in Names, m \in Names}
  \cup {Call("clear_task_data", "", NoName, NoName, NoProps, t) : t \in Generations}
  \cup {Call("update_node", "", n, NoName, ("note" :> "z"), "") : n \in Names}
  \cup {Call("clear_database", "", NoName, NoName, NoProps, ""),
        Call("update_file_path", "", RootPath, NoName, NoProps, "")}

\* the store after the body of a call by a handler of generation t
CallResult(g, t, op, sel) ==
  IF op.call = "add_node"
  THEN add_node(g, t, op.label, op.start_name, op.params, sel)
  ELSE IF op.call = "add_edge"
  THEN add_edge(g, t, op.label, op.start_name, "CALL", op.label, op.end_name, op.params, sel)
  ELSE IF op.call = "update_edge"
  THEN update_edge(g, t, op.start_name, "CALL", op.end_name, op.params, sel)
  ELSE IF op.call = "update_node"
  THEN update_node(g, t, op.start_name, op.params, sel)
  ELSE IF op.call = "clear_database"
  THEN clear_database(g)
  ELSE g

WithinBounds(g) ==
  /\ Cardinality(NodeIds(g)) <= MaxNodes
  /\ Cardinality(RelIds(g)) <= MaxRels

RECURSIVE CallsMade(_, _)
CallsMade(ws, S) ==
  IF S = {} THEN 0
  ELSE LET w == CHOOSE x \in S : TRUE IN ws[w].calls + CallsMade(ws, S \ {w})

InitStore ==
  /\ graph \in StoredGraphs
  /\ workers \in [Workers -> {[pc |-> "idle", task_id |-> t, op |-> NoCall, calls |-> 0,
                             lock_acquired |-> FALSE, rows |-> <<>>] :
                                t \in Generations}]
  /\ lock = NoHolder
  /\ connection = Connected
  /\ NoApp
  /\ query = NoQuery
  /\ sessions = NoSessions
  /\ future_to_file = <<>>
  /\ files = <<>>
  /\ py_files = <<>>
  /\ task_id = ""
  /\ visited = <<>>
  /\ class_inherited = <<>>
  /\ processed_relations = {}
  /\ pc = [phase |-> "store"]
  /\ snap = EmptyGraph
  /\ NoUpdate

SessionIdle == UNCHANGED <<files, py_files, task_id, visited, class_inherited,
                           processed_relations, pc, pulled_inherited, future_to_file,
                           connection, query, sessions, container, workflow, bus>>

\* FileLock.__enter__ at the head of a call: blocks until the lockfile is free
Acquire(w) ==
  /\ workers[w].pc = "idle"
  /\ lock = NoHolder
  /\ CallsMade(workers, Workers) < MaxCalls
  /\ \E op \in Calls :
       /\ \A sel \in FirstPolicies : WithinBounds(CallResult(graph, workers[w].task_id, op, sel))
       /\ workers' = [workers EXCEPT ![w].pc = "locked", ![w].op = op, ![w].calls = @ + 1,
                                     ![w].lock_acquired = TRUE]
       /\ snap' = graph
  /\ lock' = w
  /\ UNCHANGED graph
  /\ SessionIdle

\* worker w is inside 'with self.lock' of the named call
InCall(w, call) ==
  /\ workers[w].pc = "locked"
  /\ lock = w
  /\ workers[w].op.call = call

\* the body of add_node
AddNode(w) ==
  /\ InCall(w, "add_node")
  /\ \E sel \in FirstPolicies :
       graph' = add_node(graph, workers[w].task_id, workers[w].op.label,
                         workers[w].op.start_name, workers[w].op.params, sel)
  /\ workers' = [workers EXCEPT ![w].pc = "done"]
  /\ UNCHANGED <<lock, snap, container, workflow, bus>>
  /\ SessionIdle

\* the body of add_edge
AddEdge(w) ==
  /\ InCall(w, "add_edge")
  /\ \E sel \in FirstPolicies :
       graph' = add_edge(graph, workers[w].task_id, workers[w].op.label,
                         workers[w].op.start_name, "CALL", workers[w].op.label,
                         workers[w].op.end_name, workers[w].op.params, sel)
  /\ workers' = [workers EXCEPT ![w].pc = "done"]
  /\ UNCHANGED <<lock, snap, container, workflow, bus>>
  /\ SessionIdle

\* the body of update_edge
UpdateEdge(w) ==
  /\ InCall(w, "update_edge")
  /\ \E sel \in FirstPolicies :
       graph' = update_edge(graph, workers[w].task_id, workers[w].op.start_name, "CALL",
                            workers[w].op.end_name, workers[w].op.params, sel)
  /\ workers' = [workers EXCEPT ![w].pc = "done"]
  /\ UNCHANGED <<lock, snap, container, workflow, bus>>
  /\ SessionIdle

\* the loop of clear_task_data left after its first pair of queries
LoopEnds_first_pass(removed, deleted) == TRUE

\* if removed_count == 0 and deleted_count == 0: break
LoopEnds(removed, deleted) == removed = {} /\ deleted = {}

\* one iteration of the loop of clear_task_data: the REMOVE query, the
\* DELETE query, and the test that ends the loop
ClearBatch(w) ==
  /\ InCall(w, "clear_task_data")
  /\ \E removed \in Batches(RemoveLabelMatches(graph, workers[w].op.task), BatchSize) :
       LET g1 == RemoveLabel(graph, workers[w].op.task, removed)
       IN  \E deleted \in Batches(DeleteNodeMatches(g1, workers[w].op.task), BatchSize) :
             /\ graph' = DetachDelete(g1, deleted)
             /\ workers' = [workers EXCEPT ![w].pc =
                              IF LoopEnds(removed, deleted) THEN "done" ELSE "locked"]
  /\ UNCHANGED <<lock, snap, container, workflow, bus>>
  /\ SessionIdle

\* the body of update_node
UpdateNode(w) ==
  /\ InCall(w, "update_node")
  /\ \E sel \in FirstPolicies :
       graph' = update_node(graph, workers[w].task_id, workers[w].op.start_name,
                            workers[w].op.params, sel)
  /\ workers' = [workers EXCEPT ![w].pc = "done"]
  /\ UNCHANGED <<lock, snap, container, workflow, bus>>
  /\ SessionIdle

\* the body of clear_database
ClearDatabase(w) ==
  /\ InCall(w, "clear_database")
  /\ graph' = clear_database(graph)
  /\ workers' = [workers EXCEPT ![w].pc = "done"]
  /\ UNCHANGED <<lock, snap, container, workflow, bus>>
  /\ SessionIdle

\* update_file_path, inside its 'with self.lock': the call of execute_query.
\* execute_query enters self.lock again: the process already holds the
\* lockfile, so the acquire returns at once; its __exit__ finds
\* lock_acquired set, releases the lockfile and clears the flag. The rows
\* come in an order the store chooses.
QueryFilePaths(w) ==
  /\ InCall(w, "update_file_path")
  /\ workers[w].lock_acquired
  /\ \E rows \in Perms(FilePathRows(graph, workers[w].task_id)) :
       workers' = [workers EXCEPT ![w].rows = rows, ![w].lock_acquired = FALSE,
                                  ![w].pc = IF rows = <<>> THEN "done" ELSE "updating"]
  /\ lock' = NoHolder
  /\ UNCHANGED <<graph, snap, container, workflow, bus>>
  /\ SessionIdle

\* update_file_path: one iteration of the loop. The call of update_node
\* enters self.lock (blocking until the lockfile is free), updates the node
\* and releases on exit; a row whose path does not start with the root
\* makes no call.
UpdateFilePathRow(w) ==
  /\ workers[w].pc = "updating"
  /\ workers[w].rows # <<>>
  /\ LET row == Head(workers[w].rows)
     IN  /\ StartsWith(row.file_path, workers[w].op.start_name) => lock = NoHolder
         /\ \E sel \in FirstPolicies :
              graph' = update_file_path_row(graph, workers[w].task_id,
                                            workers[w].op.start_name, row, sel)
  /\ workers' = [workers EXCEPT ![w].rows = Tail(@),
                                ![w].pc = IF Tail(workers[w].rows) = <<>> THEN "done" ELSE "updating"]
  /\ UNCHANGED <<lock, snap, container, workflow, bus>>
  /\ SessionIdle

\* FileLock.__exit__ of the call's own 'with self.lock': releases the
\* lockfile when lock_acquired is set
Release(w) ==
  /\ workers[w].pc = "done"
  /\ lock' = IF workers[w].lock_acquired THEN NoHolder ELSE lock
  /\ snap' = IF workers[w].lock_acquired THEN EmptyGraph ELSE snap
  /\ workers' = [workers EXCEPT ![w].pc = "idle", ![w].op = NoCall, ![w].lock_acquired = FALSE]
  /\ UNCHANGED graph
  /\ SessionIdle

NextStore ==
  \E w \in Workers :
    \/ Acquire(w)
    \/ AddNode(w)
    \/ AddEdge(w)
    \/ UpdateEdge(w)
    \/ ClearBatch(w)
    \/ UpdateNode(w)
    \/ ClearDatabase(w)
    \/ QueryFilePaths(w)
    \/ UpdateFilePathRow(w)
    \/ Release(w)

SpecStore == InitStore /\ [][NextStore]_vars

\* ------------------------------------------------------- AstUpdateEdge
\* _get_all_node_in_file: the full names of the new generation's nodes whose
\* file_path is the file's path below the root
_get_all_node_in_file(g, task_id_new, file) ==
  {g.nodes[n].full_name : n \in {x \in NodeIds(g) : /\ task_id_new \in g.nodes[x].labels
                                                    /\ HasProp(g.nodes[x].props, "file_path")
                                                    /\ g.nodes[x].props["file_path"] = file}}

\* the second MATCH with the old generation's tag alone on the source
OldEdgeMatches_any_source(g, task_id_old, task_id_new, node_list) ==
  {r \in RelIds(g) :
     LET target_node == g.nodes[g.rels[r].end]
         source_node == g.nodes[g.rels[r].start]
     IN  /\ task_id_old \in target_node.labels
         /\ HasProp(target_node.props, "file_path")
         /\ target_node.full_name \in node_list
         /\ task_id_old \in source_node.labels
         /\ HasProp(source_node.props, "file_path")
         /\ source_node.props["file_path"] # target_node.props["file_path"]}

\* the relationships the query of _get_old_edge_list matches: the target
\* is an old node named in node_list, the source carries both generations
\* and lies in another file
OldEdgeMatches(g, task_id_old, task_id_new, node_list) ==
  {r \in RelIds(g) :
     LET target_node == g.nodes[g.rels[r].end]
         source_node == g.nodes[g.rels[r].start]
     IN  /\ task_id_old \in target_node.labels
         /\ HasProp(target_node.props, "file_path")
         /\ target_node.full_name \in node_list
         /\ {task_id_old, task_id_new} \subseteq source_node.labels
         /\ HasProp(source_node.props, "file_path")
         /\ source_node.props["file_path"] # target_node.props["file_path"]}

\* the rows of _get_old_edge_list, in the order rs of the matched relationships
_get_old_edge_list(g, rs) ==
  [i \in DOMAIN rs |-> [source |-> g.nodes[g.rels[rs[i]].start].full_name,
                        relationship_type |-> g.rels[rs[i]].type,
                        target |-> g.nodes[g.rels[rs[i]].end].full_name]]

\* the endpoint of the MERGE as the old generation would resolve it
MergeEndpoints_old_generation(g, task_id_old, task_id_new, full_name) ==
  MatchingNodes(g, task_id_old, full_name)

\* OPTIONAL MATCH (n:task_id_new {full_name: ...}) of _build_edges_from_list
MergeEndpoints(g, task_id_old, task_id_new, full_name) ==
  MatchingNodes(g, task_id_new, full_name)

\* MERGE (source_node)-[r:type]->(target_node) for one bound pair
MergeRel(g, source_node, relationship_type, target_node) ==
  IF MatchingRels(g, source_node, relationship_type, target_node) # {} THEN g
  ELSE [g EXCEPT !.rels = g.rels @@ (g.nextRel :> [start |-> source_node,
                                                   type |-> relationship_type,
                                                   end |-> target_node,
                                                   props |-> NoProps]),
                 !.nextRel = g.nextRel + 1]

RECURSIVE MergePairs(_, _, _)
MergePairs(g, relationship_type, pairs) ==
  IF pairs = {} THEN g
  ELSE LET p == CHOOSE x \in pairs : \A y \in pairs : x[1] < y[1] \/ (x[1] = y[1] /\ x[2] <= y[2])
       IN  MergePairs(MergeRel(g, p[1], relationship_type, p[2]), relationship_type, pairs \ {p})

\* a row whose source or target has no node in the new generation binds
\* null, and MERGE on a null node fails the statement
RowBindsNull(g, task_id_old, task_id_new, row) ==
  \/ MergeEndpoints(g, task_id_old, task_id_new, row.source) = {}
  \/ MergeEndpoints(g, task_id_old, task_id_new, row.target) = {}

RECURSIVE MergeRows(_, _, _, _)
MergeRows(g, task_id_old, task_id_new, rows) ==
  IF rows = <<>> THEN g
  ELSE MergeRows(MergePairs(g, rows[1].relationship_type,
                            MergeEndpoints(g, task_id_old, task_id_new, rows[1].source)
                              \X MergeEndpoints(g, task_id_old, task_id_new, rows[1].target)),
                 task_id_old, task_id_new, Tail(rows))

RowsOfType(rows, relationship_type) ==
  SelectSeq(rows, LAMBDA row : row.relationship_type = relationship_type)

\* one statement of _build_edges_from_list: the rows of one type; a failed
\* statement is rolled back and execute_query returns ''
MergeRowsOfType(g, task_id_old, task_id_new, rows, relationship_type) ==
  LET batch == RowsOfType(rows, relationship_type)
  IN  IF \E i \in DOMAIN batch : RowBindsNull(g, task_id_old, task_id_new, batch[i]) THEN g
      ELSE MergeRows(g, task_id_old, task_id_new, batch)

RelationshipTypes == <<"CONTAINS", "INHERITS", "HAS_METHOD", "HAS_FIELD", "CALL">>

RECURSIVE MergeTypes(_, _, _, _, _)
MergeTypes(g, task_id_old, task_id_new, rows, types) ==
  IF types = <<>> THEN g
  ELSE MergeTypes(MergeRowsOfType(g, task_id_old, task_id_new, rows, types[1]),
                  task_id_old, task_id_new, rows, Tail(types))

\* self.class_inherited[relation['source']].append(relation['target']) for
\* the INHERITS rows
RECURSIVE FoldInherits(_, _)
FoldInherits(d, rows) ==
  IF rows = <<>> THEN d
  ELSE FoldInherits(DictAppend(d, rows[1].source, rows[1].target), Tail(rows))

\* _build_edges_from_list on s = [graph, class_inherited]
_build_edges_from_list(s, task_id_old, task_id_new, relationships_list) ==
  [graph |-> MergeTypes(s.graph, task_id_old, task_id_new, relationships_list,
                        RelationshipTypes),
   class_inherited |-> FoldInherits(s.class_inherited,
                                    RowsOfType(relationships_list, "INHERITS"))]

\* ------------------------------------------ reconciling a changed file
\* File f defines foo and, in some versions, a class Base with a method m
\* and an import of helper from u, which Base then names as its base; file u defines helper and, in some
\* versions, imports foo and declares Child(Base).
FileF == <<"f">>
FileU == <<"u">>
FVersion(has_foo, has_base, imports_helper) ==
  [ok |-> TRUE,
   imports |-> IF imports_helper THEN <<Imp(<<"u">>, "helper")>> ELSE <<>>,
   classes |-> IF has_base
               THEN <<[name |-> "Base",
                       bases |-> IF imports_helper THEN <<[simple |-> TRUE, id |-> "helper"]>>
                                 ELSE <<>>]>>
               ELSE <<>>,
   symbols |-> <<ModuleSym(<<"f">>, FileF)>>
               \o (IF has_foo THEN <<TopSym("FUNCTION", <<"f">>, "foo", FileF)>> ELSE <<>>)
               \o (IF has_base THEN <<TopSym("CLASS", <<"f">>, "Base", FileF),
                                      MethodSym(<<"f", "Base">>, "m", FileF)>> ELSE <<>>)]
UVersion(imports_foo, has_child) ==
  [ok |-> TRUE,
   imports |-> (IF imports_foo THEN <<Imp(<<"f">>, "foo")>> ELSE <<>>)
               \o (IF has_child THEN <<Imp(<<"f">>, "Base")>> ELSE <<>>),
   classes |-> IF has_child
               THEN <<[name |-> "Child", bases |-> <<[simple |-> TRUE, id |-> "Base"]>>]>>
               ELSE <<>>,
   symbols |-> <<ModuleSym(<<"u">>, FileU), TopSym("FUNCTION", <<"u">>, "helper", FileU)>>
               \o (IF has_child THEN <<TopSym("CLASS", <<"u">>, "Child", FileU)>> ELSE <<>>)]
FVersions == {FVersion(a, b, c) : a \in BOOLEAN, b \in BOOLEAN, c \in BOOLEAN}

\* the full build of generation g1 comes first
InitUpdate ==
  /\ \E has_base \in BOOLEAN, imports_helper \in BOOLEAN, imports_foo \in BOOLEAN,
        has_child \in BOOLEAN :
       files = (FileF :> FVersion(TRUE, has_base, imports_helper))
               @@ (FileU :> UVersion(imports_foo, has_child))
  /\ py_files \in Perms({FileF, FileU})
  /\ task_id = G1
  /\ graph = IndexedGraph(G1, AllSymbols(files, <<FileF, FileU>>))
  /\ FreshSession
  /\ snap = EmptyGraph
  /\ NoWorkers
  /\ NoUpdate

\* the store after the indexer has added the symbols to generation task
IndexInto(g, task, syms) ==
  LET x == IndexedGraph(task, syms)
      dn == g.nextNode - 1
      dr == g.nextRel - 1
  IN  [nodes |-> g.nodes @@ [n \in {i + dn : i \in NodeIds(x)} |-> x.nodes[n - dn]],
       rels |-> g.rels @@ [r \in {j + dr : j \in RelIds(x)} |->
                             [x.rels[r - dr] EXCEPT !.start = @ + dn, !.end = @ + dn]],
       nextNode |-> g.nextNode + Len(syms),
       nextRel |-> g.nextRel + (x.nextRel - 1)]

\* the nodes of the files that did not change are shared with the new
\* generation
CarryForward(g, task_id_old, task_id_new, change_files) ==
  [g EXCEPT !.nodes = [n \in NodeIds(g) |->
     IF /\ task_id_old \in g.nodes[n].labels
        /\ HasProp(g.nodes[n].props, "file_path")
        /\ g.nodes[n].props["file_path"] \notin change_files
     THEN [g.nodes[n] EXCEPT !.labels = @ \cup {task_id_new}]
     ELSE g.nodes[n]]]

\* f changes: generation g2 shares the nodes of u and gets the symbols of
\* the new f; AstUpdateEdge(g1, g2).build_edge([f]) starts
Reindex ==
  /\ pc.phase = "done"
  /\ task_id = G1
  /\ \E version \in FVersions :
       /\ files' = [files EXCEPT ![FileF] = version]
       /\ graph' = IndexInto(CarryForward(graph, G1, G2, {FileF}), G2, version.symbols)
  /\ py_files' = <<FileF>>
  /\ task_id' = G2
  /\ visited' = <<>>
  /\ class_inherited' = <<>>
  /\ processed_relations' = {}
  /\ pulled_inherited' = <<>>
  /\ pc' = [phase |-> "pull", i |-> 1, j |-> 1]
  /\ snap' = graph
  /\ UNCHANGED <<lock, workers, query, sessions, connection, future_to_file, container, workflow, bus>>

\* one file of the loop of build_old_node_to_new
PullForward ==
  /\ pc.phase = "pull"
  /\ LET node_list == _get_all_node_in_file(graph, G2, py_files[pc.i])
     IN  \E rs \in Perms(OldEdgeMatches(graph, G1, G2, node_list)) :
           LET old_edge_list == _get_old_edge_list(graph, rs)
               s == IF node_list = {} \/ old_edge_list = <<>>
                    THEN [graph |-> graph, class_inherited |-> pulled_inherited]
                    ELSE _build_edges_from_list(
                           [graph |-> graph, class_inherited |-> pulled_inherited],
                           G1, G2, old_edge_list)
           IN  /\ graph' = s.graph
               /\ pulled_inherited' = s.class_inherited
  /\ pc' = IF pc.i < Len(py_files) THEN [pc EXCEPT !.i = @ + 1]
           ELSE [pc EXCEPT !.phase = "fold"]
  /\ UNCHANGED <<files, py_files, task_id, visited, class_inherited, processed_relations,
                 snap, lock, workers, query, sessions, connection, future_to_file, container, workflow, bus>>

\* build_edge without the update of the session's class_inherited
FoldInherited_not_folded ==
  /\ pc.phase = "fold"
  /\ pc' = [phase |-> "contain", i |-> 1, j |-> 1]
  /\ UNCHANGED <<graph, files, py_files, task_id, visited, class_inherited,
                 processed_relations, pulled_inherited, snap, lock, workers, query, sessions,
                 connection, future_to_file, container, workflow, bus>>

\* self.ast_manage.class_inherited.update(self.class_inherited)
FoldInherited ==
  /\ pc.phase = "fold"
  /\ class_inherited' = DictUpdate(class_inherited, pulled_inherited)
  /\ pc' = [phase |-> "contain", i |-> 1, j |-> 1]
  /\ UNCHANGED <<graph, files, py_files, task_id, visited, processed_relations,
                 pulled_inherited, snap, lock, workers, query, sessions, connection, future_to_file, container, workflow, bus>>

\* build_new_node_to_old is AstManager.run over the changed files
NextUpdate ==
  \/ RunContain
  \/ RunInherited
  \/ RunPropagate
  \/ Reindex
  \/ PullForward
  \/ FoldInherited

SpecUpdate == InitUpdate /\ [][NextUpdate]_vars

\* ---------------------------------------------- _build_edges_from_list
\* _build_edges_from_list(relationships_list) of AstUpdateEdge(g1, g2) on a
\* store in which the source a and the targets b and c of the old edges
\* may or may not have a node in the new generation.
PullNames == {<<"a">>, <<"b">>, <<"c">>}
PullTypes == {"CONTAINS", "INHERITS"}
PullRow(source, relationship_type, target) ==
  [source |-> source, relationship_type |-> relationship_type, target |-> target]
PullRows == {PullRow(<<"a">>, rt, target) : rt \in PullTypes, target \in {<<"b">>, <<"c">>}}
PullLists == {<<>>} \cup {<<x>> : x \in PullRows}
               \cup {z \in PullRows \X PullRows : z[1] # z[2]}
PullGraph(a_shared, b_new, c_new) ==
  StoredGraph(<<StoredNode({G1, "CLASS"} \cup (IF a_shared THEN {G2} ELSE {}), <<"a">>),
                StoredNode({G1, "CLASS"}, <<"b">>),
                StoredNode({G1, "CLASS"}, <<"c">>)>>
              \o (IF b_new THEN <<StoredNode({G2, "CLASS"}, <<"b">>)>> ELSE <<>>)
              \o (IF c_new THEN <<StoredNode({G2, "CLASS"}, <<"c">>)>> ELSE <<>>),
              <<[StoredRel(1, 2) EXCEPT !.type = "CONTAINS"],
                [StoredRel(1, 3) EXCEPT !.type = "INHERITS"]>>)

InitPull ==
  /\ \E a_shared \in BOOLEAN, b_new \in BOOLEAN, c_new \in BOOLEAN :
       graph = PullGraph(a_shared, b_new, c_new)
  /\ \E relationships_list \in PullLists :
       pc = [phase |-> "call", relationships_list |-> relationships_list]
  /\ task_id = G2
  /\ files = <<>>
  /\ py_files = <<>>
  /\ visited = <<>>
  /\ class_inherited = <<>>
  /\ processed_relations = {}
  /\ snap = EmptyGraph
  /\ NoWorkers
  /\ NoUpdate

\* self._build_edges_from_list(old_edge_list)
BuildEdgesFromList ==
  /\ pc.phase = "call"
  /\ LET s == _build_edges_from_list([graph |-> graph, class_inherited |-> pulled_inherited],
                                     G1, G2, pc.relationships_list)
     IN  /\ graph' = s.graph
         /\ pulled_inherited' = s.class_inherited
  /\ snap' = graph
  /\ pc' = [pc EXCEPT !.phase = "built"]
  /\ UNCHANGED <<files, py_files, task_id, visited, class_inherited, processed_relations,
                 lock, workers, query, sessions, connection, future_to_file, container, workflow, bus>>

\* the store is read back: drop_indexes and the return of build_edge
PullReturns ==
  /\ pc.phase = "built"
  /\ pc' = [pc EXCEPT !.phase = "returned"]
  /\ UNCHANGED <<graph, files, py_files, task_id, visited, class_inherited,
                 processed_relations, pulled_inherited, snap, lock, workers, query, sessions,
                 connection, future_to_file, container, workflow, bus>>

NextPull ==
  \/ BuildEdgesFromList
  \/ PullReturns

SpecPull == InitPull /\ [][NextPull]_vars

\* ------------------------------------------- sessions side by side
\* AstManager._run from a fresh instance, as one computation
RECURSIVE ContainAll(_, _, _, _)
ContainAll(s, fs, task, order) ==
  IF order = <<>> THEN s
  ELSE ContainAll(build_modules_contain(s, fs, task, order[1], "lo"), fs, task, Tail(order))

RECURSIVE InheritedAll(_, _, _, _)
InheritedAll(s, fs, task, order) ==
  IF order = <<>> THEN s
  ELSE InheritedAll(build_inherited(s, fs, task, order[1], "lo"), fs, task, Tail(order))

\* the pairs (class, base) in the order of the two loops over class_inherited
RECURSIVE DictPairs(_)
DictPairs(d) ==
  IF d = <<>> THEN <<>>
  ELSE [j \in DOMAIN d[1].v |-> <<d[1].k, d[1].v[j]>>] \o DictPairs(Tail(d))

RECURSIVE PropagateAll(_, _, _, _)
PropagateAll(s, d, task, pairs) ==
  IF pairs = <<>> THEN s
  ELSE PropagateAll(_build_inherited_method(s, d, task, pairs[1][1], pairs[1][2], "lo"),
                    d, task, Tail(pairs))

_run(g, fs, task, order) ==
  LET c == ContainAll([graph |-> g, visited |-> <<>>], fs, task, order)
      h == InheritedAll([graph |-> c.graph, class_inherited |-> <<>>], fs, task, order)
      m == PropagateAll([graph |-> h.graph, processed_relations |-> {}], h.class_inherited,
                        task, DictPairs(h.class_inherited))
  IN  [graph |-> m.graph, visited |-> c.visited, class_inherited |-> h.class_inherited,
       processed_relations |-> m.processed_relations]

\* Two projects of files f and u are indexed into the same store, one per
\* generation, and an AstManager of each generation runs over its project.
Projects ==
  {(FileF :> FVersion(TRUE, has_base, imports_helper)) @@ (FileU :> UVersion(imports_foo, has_child)) :
     has_base \in BOOLEAN, imports_helper \in BOOLEAN, imports_foo \in BOOLEAN,
     has_child \in BOOLEAN}
FreshInstance(fs, order) ==
  [files |-> fs, py_files |-> order, visited |-> <<>>, class_inherited |-> <<>>,
   processed_relations |-> {}, pc |-> [phase |-> "contain", i |-> 1, j |-> 1]]
IndexedAlone(task, fs) == IndexedGraph(task, AllSymbols(fs, <<FileF, FileU>>))

InitSessions ==
  /\ \E p1 \in Projects, p2 \in Projects, o1 \in Perms({FileF, FileU}) :
       /\ sessions = (G1 :> FreshInstance(p1, o1)) @@ (G2 :> FreshInstance(p2, <<FileF, FileU>>))
       /\ graph = IndexInto(IndexedAlone(G1, p1), G2, AllSymbols(p2, <<FileF, FileU>>))
  /\ files = <<>>
  /\ py_files = <<>>
  /\ task_id = ""
  /\ visited = <<>>
  /\ class_inherited = <<>>
  /\ processed_relations = {}
  /\ pc = [phase |-> "sessions"]
  /\ snap = EmptyGraph
  /\ lock = NoHolder
  /\ workers = <<>>
  /\ future_to_file = <<>>
  /\ connection = Connected
  /\ NoApp
  /\ query = NoQuery
  /\ NoUpdate

OthersIdle == UNCHANGED <<files, py_files, task_id, visited, class_inherited,
                          processed_relations, pc, pulled_inherited, snap, lock, workers,
                          query, connection, future_to_file, container, workflow, bus>>

\* self.build_modules_contain(py_file) in the session of generation task
SessionContain(task) ==
  LET me == sessions[task]
      s == build_modules_contain([graph |-> graph, visited |-> me.visited], me.files, task,
                                 me.py_files[me.pc.i], "lo")
  IN  /\ me.pc.phase = "contain"
      /\ graph' = s.graph
      /\ sessions' = [sessions EXCEPT ![task].visited = s.visited,
                        ![task].pc = IF me.pc.i < Len(me.py_files) THEN [me.pc EXCEPT !.i = @ + 1]
                                     ELSE [phase |-> "inherit", i |-> 1, j |-> 1]]
      /\ OthersIdle

\* build_inherited with class_inherited as one registry of the class, shared
\* by every instance
SessionInherited_shared_registry(task) ==
  LET me == sessions[task]
      s == build_inherited([graph |-> graph, class_inherited |-> me.class_inherited], me.files,
                           task, me.py_files[me.pc.i], "lo")
      next == IF me.pc.i < Len(me.py_files) THEN [me.pc EXCEPT !.i = @ + 1]
              ELSE NextPair(s.class_inherited, 0, 0)
  IN  /\ me.pc.phase = "inherit"
      /\ graph' = s.graph
      /\ sessions' = [x \in DOMAIN sessions |->
                        [sessions[x] EXCEPT !.class_inherited = s.class_inherited,
                                            !.pc = IF x = task THEN next ELSE @]]
      /\ OthersIdle

\* self.build_inherited(py_file) in the session of generation task
SessionInherited(task) ==
  LET me == sessions[task]
      s == build_inherited([graph |-> graph, class_inherited |-> me.class_inherited], me.files,
                           task, me.py_files[me.pc.i], "lo")
  IN  /\ me.pc.phase = "inherit"
      /\ graph' = s.graph
      /\ sessions' = [sessions EXCEPT ![task].class_inherited = s.class_inherited,
                        ![task].pc = IF me.pc.i < Len(me.py_files) THEN [me.pc EXCEPT !.i = @ + 1]
                                     ELSE NextPair(s.class_inherited, 0, 0)]
      /\ OthersIdle

\* one top-level self._build_inherited_method(cur, base) in the session of
\* generation task
SessionPropagate(task) ==
  LET me == sessions[task]
      s == _build_inherited_method(
             [graph |-> graph, processed_relations |-> me.processed_relations],
             me.class_inherited, task, me.class_inherited[me.pc.i].k,
             me.class_inherited[me.pc.i].v[me.pc.j], "lo")
  IN  /\ me.pc.phase = "propagate"
      /\ graph' = s.graph
      /\ sessions' = [sessions EXCEPT ![task].processed_relations = s.processed_relations,
                        ![task].pc = NextPair(me.class_inherited, me.pc.i, me.pc.j)]
      /\ OthersIdle

NextSessions ==
  \/ \E task \in Generations : SessionContain(task)
  \/ \E task \in Generations : SessionInherited(task)
  \/ \E task \in Generations : SessionPropagate(task)

SpecSessions == InitSessions /\ [][NextSessions]_vars

\* ------------------------------------------- method propagation, by call
\* The loops of _run over class_inherited and the recursion of
\* _build_inherited_method, one call per step, for any map over the classes
\* X, Y and Z of module m: X and Y declare a method each, Z declares none.
\* pc = [phase, i, j, more, stack, fetches]: (i, j) is the next pair of the
\* loops of _run and more says whether there is one; stack holds, per call
\* that has descended, the class and the bases of its loop not yet called;
\* fetches lists the pairs whose member rows were fetched, in order.
PropModule == <<"m">>
PropClass(name) == <<"m", name>>
PropClasses == <<PropClass("X"), PropClass("Y"), PropClass("Z")>>
PropSymbols ==
  <<ModuleSym(PropModule, PropModule),
    TopSym("CLASS", PropModule, "X", PropModule), MethodSym(PropClass("X"), "mx", PropModule),
    TopSym("CLASS", PropModule, "Y", PropModule), MethodSym(PropClass("Y"), "my", PropModule),
    TopSym("CLASS", PropModule, "Z", PropModule)>>
PropMaps ==
  {[i \in DOMAIN PropClasses |-> [k |-> PropClasses[i], v |-> bases[i]]] :
     bases \in {b \in [DOMAIN PropClasses -> SeqsUpTo(Range(PropClasses), MaxListed)] :
                  Len(b[1]) + Len(b[2]) + Len(b[3]) <= MaxListed}}

FirstPair(d) == NextPair(d, 0, 0)

InitPropagate ==
  /\ graph = IndexedGraph(G1, PropSymbols)
  /\ task_id = G1
  /\ class_inherited \in PropMaps
  /\ processed_relations = {}
  /\ pc = [phase |-> FirstPair(class_inherited).phase, i |-> FirstPair(class_inherited).i,
           j |-> FirstPair(class_inherited).j,
           more |-> FirstPair(class_inherited).phase = "propagate",
           stack |-> <<>>, fetches |-> <<>>]
  /\ files = <<>>
  /\ py_files = <<>>
  /\ visited = <<>>
  /\ snap = EmptyGraph
  /\ NoWorkers
  /\ NoUpdate

\* 'if relation_key in self.processed_relations: return', never taken
AlreadyProcessed_never(processed, relation_key) == FALSE

\* 'if relation_key in self.processed_relations: return'
AlreadyProcessed(processed, relation_key) == relation_key \in processed

\* one call of _build_inherited_method up to its own loop over the bases of
\* the base class, on st = [graph, processed_relations, stack, fetches]
CallInheritedMethod(st, d, task, cur_class_full_name, base_class_full_name) ==
  LET relation_key == <<cur_class_full_name, base_class_full_name>>
      methods == get_all_edge_of_class(st.graph, task, base_class_full_name)
      st1 == [st EXCEPT !.processed_relations = @ \cup {relation_key},
                        !.fetches = Append(@, relation_key),
                        !.graph = InheritMembers(@, task, cur_class_full_name, methods, "lo")]
  IN  IF AlreadyProcessed(st.processed_relations, relation_key) THEN st
      ELSE IF DescendsIntoBases(methods, d, base_class_full_name)
      THEN [st1 EXCEPT !.stack = <<[cur |-> cur_class_full_name,
                                    bases |-> DictGet(d, base_class_full_name)]>> \o @]
      ELSE st1

PropState == [graph |-> graph, processed_relations |-> processed_relations,
              stack |-> pc.stack, fetches |-> pc.fetches]
PropIdle == UNCHANGED <<files, py_files, task_id, visited, class_inherited, pulled_inherited,
                        snap, lock, workers, query, sessions, connection, future_to_file, container, workflow, bus>>
PropPhase(more, stack) == IF more \/ stack # <<>> THEN "propagate" ELSE "done"

\* self._build_inherited_method(cur_class_full_name, base_class_full_name) of
\* the loops of _run
TopCall ==
  /\ pc.phase = "propagate"
  /\ pc.stack = <<>>
  /\ pc.more
  /\ \E st \in {CallInheritedMethod(PropState, class_inherited, task_id,
                                      class_inherited[pc.i].k, class_inherited[pc.i].v[pc.j])},
        np \in {NextPair(class_inherited, pc.i, pc.j)} :
         /\ graph' = st.graph
         /\ processed_relations' = st.processed_relations
         /\ pc' = [phase |-> PropPhase(np.phase = "propagate", st.stack), i |-> np.i,
                   j |-> np.j, more |-> np.phase = "propagate", stack |-> st.stack,
                   fetches |-> st.fetches]
  /\ PropIdle

\* self._build_inherited_method(cur_class_full_name, base_base_class_full_name)
\* of the loop of the call on top of the stack
NestedCall ==
  /\ pc.phase = "propagate"
  /\ pc.stack # <<>>
  /\ Head(pc.stack).bases # <<>>
  /\ \E st \in {CallInheritedMethod(
                     [PropState EXCEPT !.stack = <<[Head(pc.stack) EXCEPT !.bases = Tail(@)]>>
                                                 \o Tail(pc.stack)],
                     class_inherited, task_id, Head(pc.stack).cur,
                     Head(Head(pc.stack).bases))} :
         /\ graph' = st.graph
         /\ processed_relations' = st.processed_relations
         /\ pc' = [pc EXCEPT !.stack = st.stack, !.fetches = st.fetches]
  /\ PropIdle

\* the loop of the call on top of the stack is through: the call returns
ReturnCall ==
  /\ pc.phase = "propagate"
  /\ pc.stack # <<>>
  /\ Head(pc.stack).bases = <<>>
  /\ pc' = [pc EXCEPT !.stack = Tail(@), !.phase = PropPhase(pc.more, Tail(pc.stack))]
  /\ UNCHANGED <<graph, processed_relations, container, workflow, bus>>
  /\ PropIdle

NextPropagate ==
  \/ TopCall
  \/ NestedCall
  \/ ReturnCall

SpecPropagate == InitPropagate /\ [][NextPropagate]_vars

\* _run is one thread: it goes on while it has a call to make or to leave
FairPropagate == SpecPropagate /\ WF_vars(NextPropagate)

\* ------------------------------------------------ build_graph_database
\* A repository of three files: a.py declares class A with a method m,
\* b.py declares B(A), c.py declares C(B); each file may be unparsable.
\* build_graph_database submits one run_single per file to a thread pool
\* of MaxWorkers threads, collects the futures as they complete, and then
\* runs the AstManager on the same file list.
BuildClasses == <<"A", "B", "C">>
BuildBases(c) == IF c = "A" THEN <<>> ELSE IF c = "B" THEN <<"A">> ELSE <<"B">>
BuildFiles(unparsable) ==
  [f \in {ModuleOf(BuildClasses[i]) : i \in DOMAIN BuildClasses} |->
     LET cls == CHOOSE x \in Range(BuildClasses) : ModuleOf(x) = f
     IN  [ClassFile(cls, BuildBases(cls), cls = "A") EXCEPT !.ok = f \notin unparsable]]

\* what run_single does in its worker thread: the indexing subprocess
\* exits with 0 ("ok"), exits with another status ("failed": a string is
\* returned all the same), or the call raises ("raised")
Outcomes == {"ok", "failed", "raised"}
Future(state, outcome, collected) == [state |-> state, outcome |-> outcome, collected |-> collected]

InitBuild ==
  /\ \E unparsable \in SUBSET {ModuleOf("B"), ModuleOf("C")} : files = BuildFiles(unparsable)
  /\ py_files = [i \in DOMAIN BuildClasses |-> ModuleOf(BuildClasses[i])]
  /\ task_id = G1
  /\ graph = EmptyGraph
  /\ future_to_file = [f \in DOMAIN files |-> Future("pending", "", FALSE)]
  /\ visited = <<>>
  /\ class_inherited = <<>>
  /\ processed_relations = {}
  /\ pc = [phase |-> "parallel", i |-> 1, j |-> 1]
  /\ snap = EmptyGraph
  /\ lock = NoHolder
  /\ workers = <<>>
  /\ connection = Connected
  /\ NoApp
  /\ query = NoQuery
  /\ sessions = NoSessions
  /\ NoUpdate

Running(ftf) == {f \in DOMAIN ftf : ftf[f].state = "running"}
Pending(ftf) == {f \in DOMAIN ftf : ftf[f].state = "pending"}

\* a free thread of the pool takes the next work item of the queue, which
\* holds the submitted calls in the order of file_list
StartTask ==
  /\ Cardinality(Running(future_to_file)) < MaxWorkers
  /\ \E i \in DOMAIN py_files :
       /\ py_files[i] \in Pending(future_to_file)
       /\ \A k \in 1..(i - 1) : py_files[k] \notin Pending(future_to_file)
       /\ future_to_file' = [future_to_file EXCEPT ![py_files[i]].state = "running"]
  /\ UNCHANGED <<graph, files, py_files, task_id, visited, class_inherited, processed_relations,
                 pc, pulled_inherited, lock, workers, query, sessions, connection, snap, container, workflow, bus>>

\* the store after the indexing subprocess of a file that exits with 0
IndexFile(g, task, file) == IF file.ok THEN IndexInto(g, task, file.symbols) ELSE g

\* run_single returns or raises in its thread
FinishTask ==
  /\ \E f \in Running(future_to_file), outcome \in Outcomes :
       /\ future_to_file' = [future_to_file EXCEPT ![f].state = "finished", ![f].outcome = outcome]
       /\ graph' = IF outcome = "ok" THEN IndexFile(graph, task_id, files[f]) ELSE graph
  /\ UNCHANGED <<files, py_files, task_id, visited, class_inherited, processed_relations,
                 pc, pulled_inherited, lock, workers, query, sessions, connection, snap, container, workflow, bus>>

\* executor.shutdown(wait=False, cancel_futures=True): the work items
\* still in the queue are cancelled
CancelPending_none(ftf) == ftf
CancelPending(ftf) ==
  [f \in DOMAIN ftf |-> IF ftf[f].state = "pending" THEN [ftf[f] EXCEPT !.state = "cancelled"]
                        ELSE ftf[f]]

\* the loop over as_completed has come to its end
AllCollected_first_result(ftf) == \E f \in DOMAIN ftf : ftf[f].collected
AllCollected(ftf) == \A f \in DOMAIN ftf : ftf[f].collected

\* one iteration of the loop over as_completed: future.result() returns,
\* or raises and the except block is entered; after the last future the
\* AstManager is created and run
CollectResult ==
  /\ pc.phase = "parallel"
  /\ \E f \in DOMAIN future_to_file :
       /\ future_to_file[f].state = "finished"
       /\ ~future_to_file[f].collected
       /\ LET ftf == [future_to_file EXCEPT ![f].collected = TRUE]
          IN  IF future_to_file[f].outcome = "raised"
              THEN /\ future_to_file' = ftf
                   /\ pc' = [pc EXCEPT !.phase = "except"]
              ELSE /\ future_to_file' = ftf
                   /\ pc' = IF AllCollected(ftf) THEN [pc EXCEPT !.phase = "contain"] ELSE pc
  /\ UNCHANGED <<graph, files, py_files, task_id, visited, class_inherited, processed_relations,
                 pulled_inherited, lock, workers, query, sessions, connection, snap, container, workflow, bus>>

\* the except block: executor.shutdown(wait=False, cancel_futures=True)
Shutdown ==
  /\ pc.phase = "except"
  /\ future_to_file' = CancelPending(future_to_file)
  /\ pc' = [pc EXCEPT !.phase = "shutdown"]
  /\ UNCHANGED <<graph, files, py_files, task_id, visited, class_inherited, processed_relations,
                 pulled_inherited, lock, workers, query, sessions, connection, snap, container, workflow, bus>>

\* 'return msg' leaves the with block of the executor, whose __exit__
\* waits for the running threads
ReturnMessage ==
  /\ pc.phase = "shutdown"
  /\ Running(future_to_file) = {}
  /\ pc' = [pc EXCEPT !.phase = "returned"]
  /\ UNCHANGED <<graph, files, py_files, task_id, visited, class_inherited, processed_relations,
                 pulled_inherited, lock, workers, query, sessions, connection, future_to_file, snap, container, workflow, bus>>

\* the store stops answering while the AstManager runs, and answers again
ConnectionLost ==
  /\ pc.phase \in {"contain", "inherit", "propagate"}
  /\ connection.reachable
  /\ connection' = [connection EXCEPT !.reachable = FALSE]
  /\ UNCHANGED <<graph, files, py_files, task_id, visited, class_inherited, processed_relations,
                 pc, pulled_inherited, lock, workers, query, sessions, future_to_file, snap, container, workflow, bus>>

ConnectionRestored ==
  /\ ~connection.reachable
  /\ connection' = [connection EXCEPT !.reachable = TRUE]
  /\ UNCHANGED <<graph, files, py_files, task_id, visited, class_inherited, processed_relations,
                 pc, pulled_inherited, lock, workers, query, sessions, future_to_file, snap, container, workflow, bus>>

NextBuild ==
  \/ StartTask
  \/ FinishTask
  \/ CollectResult
  \/ Shutdown
  \/ ReturnMessage
  \/ RunContain
  \/ RunInherited
  \/ RunPropagate
  \/ ConnectionLost
  \/ ConnectionRestored

SpecBuild == InitBuild /\ [][NextBuild]_vars

\* ------------------------------------------- execute_query_with_timeout
\* A handler with use_lock=True runs execute_query_with_timeout(cypher,
\* timeout) for the query 'MATCH (n:`task`) RETURN n.full_name' while
\* another process may hold the lockfile. The call submits query_execution
\* to a ThreadPoolExecutor of its own and waits for future.result(timeout);
\* the thread runs execute_query_with_exception, which enters self.lock and
\* runs the query.
Rows(rows) == [rows |-> rows, text |-> ""]
Text(text) == [rows |-> {}, text |-> text]
\* what graph.run returns for the query
QueryRows(g, task) == {g.nodes[n].full_name : n \in {x \in NodeIds(g) : task \in g.nodes[x].labels}}
\* execute_query_with_exception: (rows, True), or (str(e), False)
QueryValues(g, task) ==
  {[response |-> Rows(QueryRows(g, task)), flag |-> TRUE],
   [response |-> Text("error"), flag |-> FALSE]}
OtherProcess == "other"
QueryThread == "query_execution"

InitQuery ==
  /\ graph \in StoredGraphs
  /\ task_id \in Generations
  /\ lock \in {NoHolder, OtherProcess}
  /\ \E timeout \in 1..MaxTimeout :
       query = [timeout |-> timeout, elapsed |-> 0, future |-> "none",
                value |-> [response |-> Rows({}), flag |-> FALSE],
                response |-> Rows({}), flag |-> FALSE, timed_out |-> FALSE]
  /\ pc = [phase |-> "call"]
  /\ sessions = NoSessions
  /\ files = <<>>
  /\ py_files = <<>>
  /\ visited = <<>>
  /\ class_inherited = <<>>
  /\ processed_relations = {}
  /\ snap = EmptyGraph
  /\ workers = <<>>
  /\ future_to_file = <<>>
  /\ connection = Connected
  /\ NoApp
  /\ NoUpdate

QueryIdle == UNCHANGED <<graph, files, py_files, task_id, visited, class_inherited,
                         processed_relations, pulled_inherited, workers, connection,
                         future_to_file, snap, sessions, container, workflow, bus>>

\* future = executor.submit(query_execution): the thread starts and comes
\* to 'with self.lock'; the caller waits in future.result(timeout=timeout)
Submit ==
  /\ pc.phase = "call"
  /\ query' = [query EXCEPT !.future = "entering"]
  /\ pc' = [pc EXCEPT !.phase = "waiting"]
  /\ UNCHANGED lock
  /\ QueryIdle

\* FileLock.__enter__ in the thread: lock.acquire(blocking=True) returns
\* when the lockfile is free, and only then
ThreadAcquire ==
  /\ query.future = "entering"
  /\ lock = NoHolder
  /\ lock' = QueryThread
  /\ query' = [query EXCEPT !.future = "running"]
  /\ UNCHANGED pc
  /\ QueryIdle

\* graph.run returns or raises in the thread; execute_query_with_exception
\* leaves 'with self.lock' and returns its pair
QueryCompletes ==
  /\ query.future = "running"
  /\ \E value \in QueryValues(graph, task_id) :
       query' = [query EXCEPT !.future = "finished", !.value = value]
  /\ lock' = NoHolder
  /\ UNCHANGED pc
  /\ QueryIdle

\* the other process takes the lockfile, and gives it back
OtherAcquires ==
  /\ lock = NoHolder
  /\ lock' = OtherProcess
  /\ UNCHANGED <<pc, query, container, workflow, bus>>
  /\ QueryIdle

OtherReleases ==
  /\ lock = OtherProcess
  /\ lock' = NoHolder
  /\ UNCHANGED <<pc, query, container, workflow, bus>>
  /\ QueryIdle

\* time passes
Tick ==
  /\ pc.phase \in {"waiting", "exit"}
  /\ query.elapsed < MaxTime
  /\ query' = [query EXCEPT !.elapsed = @ + 1]
  /\ UNCHANGED <<pc, lock, container, workflow, bus>>
  /\ QueryIdle

\* future.result(timeout=timeout) returns the pair of the thread
ResultReturns ==
  /\ pc.phase = "waiting"
  /\ query.future = "finished"
  /\ query' = [query EXCEPT !.response = query.value.response, !.flag = query.value.flag]
  /\ pc' = [pc EXCEPT !.phase = "exit"]
  /\ UNCHANGED lock
  /\ QueryIdle

\* the response and the flag of the 'except concurrent.futures.TimeoutError' branch
TimeoutResponse == [response |-> Text("cypher too complex, out of memory"), flag |-> TRUE]

\* future.result(timeout=timeout) raises TimeoutError
ResultTimesOut ==
  /\ pc.phase = "waiting"
  /\ query.future # "finished"
  /\ query.elapsed >= query.timeout
  /\ query' = [query EXCEPT !.response = TimeoutResponse.response,
                            !.flag = TimeoutResponse.flag, !.timed_out = TRUE]
  /\ pc' = [pc EXCEPT !.phase = "exit"]
  /\ UNCHANGED lock
  /\ QueryIdle

\* whether the __exit__ of 'with ThreadPoolExecutor() as executor' lets the
\* caller go: shutdown(wait=True) joins the thread
ExecutorLeft(future) == future = "finished"

\* 'return cypher_response, flag' after the with block
ExecutorExit ==
  /\ pc.phase = "exit"
  /\ ExecutorLeft(query.future)
  /\ pc' = [pc EXCEPT !.phase = "returned"]
  /\ UNCHANGED <<lock, query, container, workflow, bus>>
  /\ QueryIdle

CallerStep == Submit \/ ResultReturns \/ ResultTimesOut \/ ExecutorExit

NextQuery ==
  \/ Submit
  \/ ThreadAcquire
  \/ QueryCompletes
  \/ OtherAcquires
  \/ OtherReleases
  \/ Tick
  \/ ResultReturns
  \/ ResultTimesOut
  \/ ExecutorExit

SpecQuery == InitQuery /\ [][NextQuery]_vars

\* The caller's thread and the clock run on; the lockfile is granted when
\* it stays free. Nothing makes the query complete or the other process
\* give the lockfile back.
FairQuery ==
  /\ SpecQuery
  /\ WF_vars(CallerStep)
  /\ WF_vars(Tick)
  /\ WF_vars(ThreadAcquire)

\* ----------------------------------------------------- reading the store
FullName(g, n) == g.nodes[n].full_name
\* the member relationships (HAS_METHOD / HAS_FIELD) that leave a class
MemberRelsOf(g, class_full_name) ==
  {r \in RelIds(g) : /\ g.rels[r].type \in {"HAS_METHOD", "HAS_FIELD"}
                     /\ FullName(g, g.rels[r].start) = class_full_name}
\* the relationships of one type between two full names
RelsBetween(g, start_name, type, end_name) ==
  {r \in RelIds(g) : /\ g.rels[r].type = type
                     /\ FullName(g, g.rels[r].start) = start_name
                     /\ FullName(g, g.rels[r].end) = end_name}
MemberName(g, r) == Prop(g.nodes[g.rels[r].end].props, "name")
\* a member that the class declares itself lies directly below the class
IsOwnMember(g, r) == Front(FullName(g, g.rels[r].end)) = FullName(g, g.rels[r].start)

\* the classes reachable from a class through one or more class_inherited hops
RECURSIVE Reachable(_, _, _)
Reachable(d, frontier, seen) ==
  LET step == UNION {IF DictHas(d, x) THEN Range(DictGet(d, x)) ELSE {} : x \in frontier}
      fresh == step \ seen
  IN  IF fresh = {} THEN seen ELSE Reachable(d, fresh, seen \cup fresh)
Ancestors(d, class_full_name) == Reachable(d, {class_full_name}, {})

DeclaredBases(c) ==
  LET b == files[ModuleOf(c)].classes[1].bases IN [i \in DOMAIN b |-> b[i].id]
DeclaresMethod(c) == Len(files[ModuleOf(c)].symbols) = 3
IsDiamond ==
  /\ DeclaredBases("B") = <<"A">>
  /\ DeclaredBases("C") = <<"A">>
  /\ Range(DeclaredBases("D")) = {"B", "C"}
  /\ ~DeclaresMethod("B") /\ ~DeclaresMethod("C") /\ ~DeclaresMethod("D")

\* ------------------------------------------------------------------ claims
\* C2: diamond inheritance.  A defines m, B and C extend A, D extends B and
\* C, and none of B, C, D defines anything: when the method-propagation
\* phase of _run has finished, each of B, C and D has exactly one
\* HAS_METHOD relationship to a.A.m, whatever the order of the files.
C2_DiamondExactlyOne ==
  (pc.phase = "done" /\ IsDiamond) =>
     \A c \in {"B", "C", "D"} :
        Cardinality(RelsBetween(graph, ClassName(c), "HAS_METHOD", <<"a", "A", "m">>)) = 1

\* C3: transitive propagation is complete.  When the method-propagation
\* phase has finished, every member name of every ancestor of a class
\* (reachable through class_inherited) is the name of a member
\* relationship of the class itself.
C3_PropagationComplete ==
  pc.phase = "done" =>
     \A i \in DOMAIN class_inherited :
        \A anc \in Ancestors(class_inherited, class_inherited[i].k) :
           \A row \in get_all_edge_of_class(graph, task_id, anc) :
              check_exist_edge_of_class(graph, task_id, class_inherited[i].k, row.name) # {}

\* C4: override wins.  A class that declares a member named m never has a
\* member relationship to a member named m of another class.
C4_OverrideWins ==
  \A c \in ClassSet :
     \A own \in MemberRelsOf(graph, ClassName(c)) :
        IsOwnMember(graph, own) =>
           \A r \in MemberRelsOf(graph, ClassName(c)) :
              MemberName(graph, r) = MemberName(graph, own) => IsOwnMember(graph, r)

\* C4 witness: propagation has finished, and it processed a pair
\* (class, ancestor) in which the class declares m itself and the ancestor
\* has a member m to offer.
C4_Witness ==
  /\ pc.phase = "done"
  /\ \E p \in processed_relations :
        /\ \E own \in MemberRelsOf(graph, p[1]) : IsOwnMember(graph, own)
        /\ get_all_edge_of_class(graph, task_id, p[2]) # {}

\* the CONTAINS relationships from the nodes named start_name to node c
ContainsRelsTo(g, start_name, c) ==
  {r \in RelIds(g) : /\ g.rels[r].type = "CONTAINS"
                     /\ FullName(g, g.rels[r].start) = start_name
                     /\ g.rels[r].end = c}
RelsFrom(g, start_name) == {r \in RelIds(g) : FullName(g, g.rels[r].start) = start_name}

\* C5: containment idempotence.  A second containment pass over the same
\* files and the same symbol nodes, run by a fresh session, leaves the nodes
\* and the relationships (with their attributes) as the first pass left them.
C5_ContainIdempotent ==
  (pc.phase = "done" /\ ~pc.grown) => (graph.nodes = snap.nodes /\ graph.rels = snap.rels)

\* C6: wildcard import growth.  When the pass handles a file whose only
\* import is 'from M import *', the importing module afterwards has exactly
\* one CONTAINS relationship to every symbol M contains, every relationship
\* that existed before is still there between the same nodes, and the
\* relationships the module gained are one per symbol of M it had none to.
WildcardStep(file, module) ==
  /\ pc.phase = "contain"
  /\ pc' # pc
  /\ py_files[pc.i] = file
  /\ file \notin Range(visited)
  /\ files[file].imports = <<Imp(module, "*")>>

Tagged(g, t) == {n \in NodeIds(g) : t \in g.nodes[n].labels}
Clearing(w) ==
  /\ workers[w].pc \in {"locked", "done"}
  /\ workers[w].op.call = "clear_task_data"
Cleared(w) ==
  /\ workers[w].pc = "done"
  /\ workers[w].op.call = "clear_task_data"

\* C7: generation isolation.  While clear_task_data(t) runs and when it has
\* returned, every node that carried another generation's tag when the call
\* began is still in the store with that tag, its kind labels, its full
\* name and its attributes, and every relationship between two such nodes
\* is unchanged; this includes the nodes that carried both tags.
C7_GenerationIsolation ==
  \A w \in DOMAIN workers : Clearing(w) =>
    \A other \in Generations \ {workers[w].op.task} :
      /\ \A n \in Tagged(snap, other) :
            /\ n \in NodeIds(graph)
            /\ graph.nodes[n].labels \ {workers[w].op.task}
                 = snap.nodes[n].labels \ {workers[w].op.task}
            /\ graph.nodes[n].full_name = snap.nodes[n].full_name
            /\ graph.nodes[n].props = snap.nodes[n].props
      /\ \A r \in RelIds(snap) :
            {snap.rels[r].start, snap.rels[r].end} \subseteq Tagged(snap, other) =>
              r \in RelIds(graph) /\ graph.rels[r] = snap.rels[r]

\* C7 witness: clear_task_data(g1) has returned; a node that carried g1 and
\* g2 has lost g1, and a relationship between two g2 nodes was in the store.
C7_Witness ==
  \E w \in DOMAIN workers :
    /\ Cleared(w)
    /\ workers[w].op.task = G1
    /\ \E n \in Tagged(snap, G1) \cap Tagged(snap, G2) : G1 \notin graph.nodes[n].labels
    /\ \E r \in RelIds(snap) : {snap.rels[r].start, snap.rels[r].end} \subseteq Tagged(snap, G2)

C9_EdgeUpsert ==
  \A t \in Generations : \A r1, r2 \in RelIds(graph) :
    (/\ {graph.rels[r1].start, graph.rels[r1].end, graph.rels[r2].start, graph.rels[r2].end}
          \subseteq Tagged(graph, t)
     /\ FullName(graph, graph.rels[r1].start) = FullName(graph, graph.rels[r2].start)
     /\ FullName(graph, graph.rels[r1].end) = FullName(graph, graph.rels[r2].end)
     /\ graph.rels[r1].type = graph.rels[r2].type)
    => r1 = r2

\* C10: node uniqueness under concurrency.  With every handler on the same
\* lockfile, no two nodes tagged with one generation share a full name.
C10_NodeUniqueness ==
  \A t \in Generations : \A n1, n2 \in Tagged(graph, t) :
    FullName(graph, n1) = FullName(graph, n2) => n1 = n2

\* ------------------------------------------------ reconciliation properties
UpdateDone == pc.phase = "done" /\ task_id = G2
\* the relationships of the g1 build by which module u contains f.foo
StaleImports ==
  {r \in RelIds(snap) : /\ snap.rels[r].type = "CONTAINS"
                        /\ FullName(snap, snap.rels[r].start) = <<"u">>
                        /\ FullName(snap, snap.rels[r].end) = <<"f", "foo">>}
\* the relationships from node n to a g2 node named f.foo
FreshImports(n) ==
  {q \in RelIds(graph) : /\ graph.rels[q].type = "CONTAINS"
                         /\ graph.rels[q].start = n
                         /\ G2 \in graph.nodes[graph.rels[q].end].labels
                         /\ FullName(graph, graph.rels[q].end) = <<"f", "foo">>}

\* C1: incremental correctness.  f defines foo before and after the change,
\* u imports it and was built in g1, u's module node carries g1 and g2, and
\* f's nodes were rebuilt in g2: when build_edge([f]) has finished, u's
\* module node has a CONTAINS relationship to the g2 node named f.foo.
C1_IncrementalCorrectness ==
  UpdateDone =>
    \A r \in StaleImports :
      (/\ MatchingNodes(graph, G2, <<"f", "foo">>) # {}
       /\ {G1, G2} \subseteq graph.nodes[snap.rels[r].start].labels)
      => FreshImports(snap.rels[r].start) # {}

\* C1 witness: build_edge([f]) has finished, the stale relationship to the
\* g1 node is still there, and u's module node now reaches the g2 node.
C1_Witness ==
  /\ UpdateDone
  /\ \E r \in StaleImports :
       /\ r \in RelIds(graph)
       /\ G2 \notin graph.nodes[graph.rels[r].end].labels
       /\ {G1, G2} \subseteq graph.nodes[snap.rels[r].start].labels
       /\ FreshImports(snap.rels[r].start) # {}

\* ------------------------------------------------------- node properties
\* worker w has finished the body of the named call; snap is the store as
\* the call found it
Returned(w, call) ==
  /\ workers[w].pc = "done"
  /\ workers[w].op.call = call
Kinds(labels) == labels \cap (KindLabels \cup {none_label})
Incident(g, n) == {r \in RelIds(g) : g.rels[r].start = n \/ g.rels[r].end = n}
Named(g, full_name) == {n \in NodeIds(g) : g.nodes[n].full_name = full_name}

\* C11: placeholder upgrade preserves identity.  add_node(K, name) that
\* finds the generation's one node of that name with the kind 'none'
\* leaves that node with K in place of 'none'; the nodes of that name are
\* the same as before, and every relationship at the node still joins the
\* same two nodes.
C11_PlaceholderUpgrade ==
  \A w \in DOMAIN workers : Returned(w, "add_node") /\ workers[w].op.label \in KindLabels =>
    \A n \in NodeIds(snap) :
      (/\ MatchingNodes(snap, workers[w].task_id, workers[w].op.start_name) = {n}
       /\ none_label \in snap.nodes[n].labels)
      => /\ n \in NodeIds(graph)
         /\ graph.nodes[n].labels = (snap.nodes[n].labels \ {none_label})
                                      \cup {workers[w].op.label}
         /\ Named(graph, workers[w].op.start_name) = Named(snap, workers[w].op.start_name)
         /\ \A r \in Incident(snap, n) :
               /\ r \in RelIds(graph)
               /\ graph.rels[r].start = snap.rels[r].start
               /\ graph.rels[r].end = snap.rels[r].end
               /\ graph.rels[r].type = snap.rels[r].type

\* C11 witness: add_node with a kind has returned on a node that was a
\* 'none' placeholder with a relationship at it, and the node has the kind.
C11_Witness ==
  \E w \in DOMAIN workers :
    /\ Returned(w, "add_node")
    /\ workers[w].op.label \in KindLabels
    /\ \E n \in NodeIds(snap) :
         /\ MatchingNodes(snap, workers[w].task_id, workers[w].op.start_name) = {n}
         /\ none_label \in snap.nodes[n].labels
         /\ Incident(snap, n) # {}
         /\ Kinds(graph.nodes[n].labels) = {workers[w].op.label}

\* C12: first writer wins.  add_node(K2, name) on the generation's node of
\* that name whose kind K1 is neither 'none' nor K2 leaves the node with
\* exactly the kind K1, and every node of the store has exactly one kind.
C12_FirstWriterWins ==
  /\ \A w \in DOMAIN workers : Returned(w, "add_node") =>
       \A n \in MatchingNodes(snap, workers[w].task_id, workers[w].op.start_name) :
         (/\ none_label \notin snap.nodes[n].labels
          /\ workers[w].op.label \notin snap.nodes[n].labels)
         => Kinds(graph.nodes[n].labels) = Kinds(snap.nodes[n].labels)
  /\ \A n \in NodeIds(graph) : Cardinality(Kinds(graph.nodes[n].labels)) = 1
\* C13: a worker that is inside the body of a mutating call (between the
\* entry of the call's 'with self.lock' and its exit) holds the lockfile.
InBody(w) == workers[w].pc \in {"locked", "updating", "done"}
C13_WriteLockHeld == \A w \in DOMAIN workers : InBody(w) => lock = w

\* ------------------------------------------------------ build properties
\* the relationships the inheritance passes write: INHERITS, and a member
\* relationship from a class to a member declared by another class
InheritanceRels(g) ==
  {r \in RelIds(g) : \/ g.rels[r].type = "INHERITS"
                     \/ /\ g.rels[r].type \in {"HAS_METHOD", "HAS_FIELD"}
                        /\ ~IsOwnMember(g, r)}
AstManagerPhases == {"contain", "inherit", "propagate", "done"}

\* C14: a step that writes an INHERITS or an inherited member relationship
\* is taken after build_modules_contain has run for every file of the file
\* list, and the AstManager runs only when every future of the parallel
\* phase has finished.
C14_PhaseOrdering ==
  /\ [][InheritanceRels(graph') # InheritanceRels(graph)
          => /\ pc.phase \in {"inherit", "propagate"}
             /\ Range(py_files) \subseteq Range(visited)]_vars
  /\ [](pc.phase \in AstManagerPhases
          => \A f \in DOMAIN future_to_file : future_to_file[f].state = "finished")
C14_Witness ==
  /\ pc.phase = "done"
  /\ future_to_file # <<>>
  /\ \E r \in InheritanceRels(graph) : graph.rels[r].type = "INHERITS"
  /\ \E r \in InheritanceRels(graph) : graph.rels[r].type = "HAS_METHOD"

\* C15: when the indexing of a file has failed, by a subprocess that exits
\* with a non-zero status or by a call that raises, build_graph_database
\* does not go on to the AstManager passes and does not return None.
C15_WorkerFailureSurfaced ==
  (\E f \in DOMAIN future_to_file : future_to_file[f].outcome \in {"failed", "raised"})
    => pc.phase \notin AstManagerPhases

\* a thread of the pool starts a task in this step
Started == \E f \in DOMAIN future_to_file :
             future_to_file[f].state = "pending" /\ future_to_file'[f].state = "running"
Raised == \E f \in DOMAIN future_to_file : future_to_file[f].outcome = "raised"
WritesStand ==
  /\ \A n \in NodeIds(graph) : n \in NodeIds(graph') /\ graph'.nodes[n] = graph.nodes[n]
  /\ \A r \in RelIds(graph) : r \in RelIds(graph') /\ graph'.rels[r] = graph.rels[r]

\* C16 as stated: from the moment a future has raised, no task starts.
C16_NoStartAfterRaise == [][Raised => ~Started]_vars

\* C16: from the moment build_graph_database has met the raised future and
\* shut the executor down, no task starts; it returns only when no task is
\* running; and no step after the raise removes a node or a relationship.
C16_Cancellation ==
  /\ [][pc.phase \in {"shutdown", "returned"} => ~Started]_vars
  /\ [](pc.phase = "returned" => Running(future_to_file) = {})
  /\ [][Raised => WritesStand]_vars
C16_Witness ==
  /\ pc.phase = "returned"
  /\ \E f \in DOMAIN future_to_file : future_to_file[f].state = "cancelled"
  /\ \E f \in DOMAIN future_to_file :
       /\ future_to_file[f].outcome = "ok"
       /\ ~future_to_file[f].collected
  /\ NodeIds(graph) # {}

\* the file the running loop of _run is at
CurrentFile == py_files[pc.i]
\* the classes of the readable files that name a base
DerivedClasses ==
  {Append(get_dotted_name(f), files[f].classes[i].name) :
     f \in {x \in DOMAIN files : files[x].ok}, i \in {1}} \ {ClassName("A")}

\* C17: the step of the containment loop or of the inheritance loop (a step
\* in which the store's reachability stays as it is) on a file that cannot
\* be parsed leaves the store and class_inherited as they
\* are and moves on to the next file or the next loop; when _run is done,
\* build_modules_contain has run for every file and build_inherited has
\* recorded every class of the readable files that names a base.
C17_ParseFailureNonFatal ==
  /\ [][(/\ pc.phase \in {"contain", "inherit"}
          /\ ~files[CurrentFile].ok
          /\ connection'.reachable = connection.reachable)
          => /\ graph' = graph
             /\ class_inherited' = class_inherited
             /\ \/ pc'.phase = pc.phase /\ pc'.i = pc.i + 1
                \/ pc.i = Len(py_files) /\ pc'.phase \in AstManagerPhases \ {pc.phase}]_vars
  /\ [](pc.phase = "done"
          => /\ Range(py_files) \subseteq Range(visited)
             /\ \A c \in DerivedClasses : DictHas(class_inherited, c))
C17_Witness ==
  /\ pc.phase = "done"
  /\ ~files[py_files[2]].ok
  /\ files[py_files[3]].ok
  /\ py_files[2] \in Range(visited)
  /\ DictHas(class_inherited, ClassName("C"))

\* ------------------------------------------------- containment properties
\* the import names one symbol, and the target module has no CONTAINS
\* relationship to a node of that name
Missed(g, imp) ==
  /\ imp.module # NoName
  /\ imp.name # "*"
  /\ ~ContainEdgeFound(g, task_id, imp.module, imp.name, "lo")
\* node e is what the import names: recorded under the target module, with
\* the imported name
ResolvedBy(g, imp, e) ==
  /\ imp.module # NoName
  /\ e \in ModuleContains(g, task_id, imp.module)
  /\ imp.name = "*" \/ Prop(g.nodes[e].props, "name") = imp.name
\* the relationships a step has added that leave the node named full_name
NewRelsFrom(full_name) ==
  {r \in RelIds(graph') \ RelIds(graph) : FullName(graph', graph'.rels[r].start) = full_name}

\* C18: when build_modules_contain has run on a file one of whose imports
\* names a symbol that is not recorded under the target module, also not
\* after the package's __init__ file was built, the step has created no
\* node, and every relationship it has added from the importing module
\* ends at a node that an import of the file resolves to.
C18_ResolutionMiss ==
  [][(pc.phase = "contain" /\ CurrentFile \notin Range(visited))
       => LET imports == files[CurrentFile].imports
          IN  (\E k \in DOMAIN imports : Missed(graph', imports[k]))
                => /\ NodeIds(graph') = NodeIds(graph)
                   /\ \A r \in NewRelsFrom(get_dotted_name(CurrentFile)) :
                        \E k \in DOMAIN imports :
                          ResolvedBy(graph', imports[k], graph'.rels[r].end)]_vars
\* n.py's only import is 'from m import zzz', m is a package, and the pass
\* has been over n.py
C18_Witness ==
  /\ FileN \in DOMAIN files
  /\ files[FileN].imports = <<Imp(<<"m">>, "zzz")>>
  /\ InitFileOf(<<"m">>) \in DOMAIN files
  /\ {FileN, InitFileOf(<<"m">>)} \subseteq Range(visited)
  /\ Missed(graph, files[FileN].imports[1])
  /\ RelsFrom(graph, <<"n">>) = {}

\* the CONTAINS relationships from the module named cur to node e
ContainsRels(g, cur, e) ==
  {r \in RelIds(g) : /\ g.rels[r].type = "CONTAINS"
                     /\ FullName(g, g.rels[r].start) = cur
                     /\ g.rels[r].end = e}

\* C19: when build_modules_contain has run on a file that imports one name
\* which the target module had recorded, there is exactly one CONTAINS
\* relationship from the importing module to that symbol, and its
\* association_type is the kind label of the symbol's node.
C19_SpecificImport ==
  [][(pc.phase = "contain" /\ CurrentFile \notin Range(visited))
       => LET imports == files[CurrentFile].imports
              cur == get_dotted_name(CurrentFile)
          IN  \A k \in DOMAIN imports :
                (/\ imports[k].module # NoName
                 /\ imports[k].name # "*"
                 /\ ContainEdgeFound(graph, task_id, imports[k].module, imports[k].name, "lo"))
                  => \E e \in NodeIds(graph') :
                       /\ ResolvedBy(graph', imports[k], e)
                       /\ Cardinality(ContainsRels(graph', cur, e)) = 1
                       /\ \A r \in ContainsRels(graph', cur, e) :
                            graph'.nodes[e].labels \cap KindLabels
                              = {Prop(graph'.rels[r].props, "association_type")}]_vars
\* n.py holds 'from m import f', and the second pass has been over n.py
C19_Witness ==
  /\ FileN \in DOMAIN files
  /\ Imp(<<"m">>, "f") \in Range(files[FileN].imports)
  /\ FileN \in Range(visited)
  /\ pc.run = 2
  /\ \E e \in NodeIds(graph) :
       /\ FullName(graph, e) = <<"m", "f">>
       /\ Cardinality(ContainsRels(graph, <<"n">>, e)) = 1

\* C20: a pass that has come to its end without an error has not gone on
\* after a query that the store did not answer.
C20_ConnectionFailureFatal == pc.phase = "done" => ~connection.read_failed

\* ------------------------------------------------------ query properties
\* C21: a call of execute_query_with_timeout whose timeout has elapsed
\* hands back an empty result: no rows, no text, and no flag of success.
C21_TimeoutReturnsEmpty ==
  (pc.phase \in {"exit", "returned"} /\ query.timed_out)
    => query.response = Rows({}) /\ ~query.flag

\* C22: when the timeout has elapsed while the caller waits for the
\* result, the call returns, whether or not the query ever completes.
C22_TimeoutBoundsBlocking ==
  (pc.phase = "waiting" /\ query.elapsed >= query.timeout) ~> (pc.phase = "returned")

\* C23: a thread that has waited for the lockfile beyond the wait budget
\* while another process holds it does not go on waiting: FileLock.__enter__
\* raises.
C23_LockWaitFails ==
  (query.future = "entering" /\ lock = OtherProcess /\ query.elapsed >= WaitBudget)
    ~> (query.future = "lock_failed")

\* --------------------------------------------------- pull-forward properties
\* the relationships of type relationship_type from a node named source to
\* a node named target, both tagged task
RelsOfRow(g, task, row) ==
  {r \in RelIds(g) : /\ g.rels[r].type = row.relationship_type
                     /\ g.rels[r].start \in MatchingNodes(g, task, row.source)
                     /\ g.rels[r].end \in MatchingNodes(g, task, row.target)}
Deferred(row) == RowBindsNull(snap, G1, G2, row)

PairsOf(d) == UNION {{<<d[i].k, d[i].v[j]>> : j \in DOMAIN d[i].v} : i \in DOMAIN d}
PushForwardPhases == {"contain", "inherit", "propagate", "done"}

\* C25: from the start of the push-forward run of build_edge to its end,
\* every INHERITS pair that pull-forward has found is in the session's
\* class_inherited.
C25_PulledInheritsFolded ==
  (task_id = G2 /\ pc.phase \in PushForwardPhases)
    => PairsOf(pulled_inherited) \subseteq PairsOf(class_inherited)
\* pull-forward has found a pair, build_inherited has run over the changed
\* files, and the propagation is under way
C25_Witness ==
  /\ task_id = G2
  /\ pc.phase = "propagate"
  /\ pulled_inherited # <<>>
  /\ PairsOf(pulled_inherited) \subseteq PairsOf(class_inherited)
  /\ PairsOf(class_inherited) \ PairsOf(pulled_inherited) # {}

\* ------------------------------------------------- generation properties
\* the generation of the handler that takes the step: the session's, or
\* that of the worker whose call it is
ActingGenerations ==
  IF workers = <<>> THEN {task_id'}
  ELSE {workers[w].task_id : w \in {x \in DOMAIN workers : workers'[x] # workers[x]}}
BothCarry(g, r, task) ==
  /\ task \in g.nodes[g.rels[r].start].labels
  /\ task \in g.nodes[g.rels[r].end].labels
GenerationsOf(g, n) == g.nodes[n].labels \cap Generations

\* C26: every relationship a step creates (add_edge, update_edge, the MERGE
\* of pull-forward) joins two nodes that both carry the generation of the
\* handler; none joins a node of the old generation only to a node of the
\* new generation only.
C26_NoCrossGenerationEdge ==
  [][\A r \in RelIds(graph') \ RelIds(graph) :
       /\ \A task \in ActingGenerations : BothCarry(graph', r, task)
       /\ GenerationsOf(graph', graph'.rels[r].start) \cap
            GenerationsOf(graph', graph'.rels[r].end) # {}]_vars
\* pull-forward has joined a shared node to a node of the new generation
\* only, and the push-forward run has written a relationship of its own
C26_Witness ==
  /\ task_id = G2
  /\ pc.phase = "done"
  /\ \E r \in RelIds(graph) :
       /\ GenerationsOf(graph, graph.rels[r].start) = {G1, G2}
       /\ GenerationsOf(graph, graph.rels[r].end) = {G2}
  /\ \E r \in RelIds(graph) :
       /\ GenerationsOf(graph, graph.rels[r].start) = {G2}
       /\ GenerationsOf(graph, graph.rels[r].end) = {G1, G2}

\* ---------------------------------------------------- session properties
\* what a generation holds: its nodes, and the relationships among them
GenerationNodes(g, task) == {n \in NodeIds(g) : task \in g.nodes[n].labels}
GenerationRels(g, task) ==
  {r \in RelIds(g) : {g.rels[r].start, g.rels[r].end} \subseteq GenerationNodes(g, task)}
GenerationView(g, task) ==
  [nodes |-> {g.nodes[n] : n \in GenerationNodes(g, task)},
   rels |-> {[start |-> g.nodes[g.rels[r].start].full_name, type |-> g.rels[r].type,
              end |-> g.nodes[g.rels[r].end].full_name, props |-> g.rels[r].props] :
               r \in GenerationRels(g, task)},
   count |-> Cardinality(GenerationRels(g, task))]
Alone(task) ==
  _run(IndexedAlone(task, sessions[task].files), sessions[task].files, task,
       sessions[task].py_files)
AllDone == \A task \in Generations : sessions[task].pc.phase = "done"

\* C27: when two sessions of two generations have run side by side on one
\* store, each has the visited, class_inherited and processed_relations of
\* its run alone, and its generation holds the nodes and relationships of
\* that run alone.
C27_SessionIsolation ==
  (sessions # NoSessions /\ AllDone) =>
    \A task \in Generations :
      LET alone == Alone(task)
      IN  /\ sessions[task].visited = alone.visited
          /\ sessions[task].class_inherited = alone.class_inherited
          /\ sessions[task].processed_relations = alone.processed_relations
          /\ GenerationView(graph, task) = GenerationView(alone.graph, task)
\* both sessions are through, each has recorded a class of its own, and
\* they have written different relationships
C27_Witness ==
  /\ sessions # NoSessions
  /\ AllDone
  /\ \A task \in Generations : sessions[task].processed_relations # {}
  /\ GenerationView(graph, G1).rels # GenerationView(graph, G2).rels

\* -------------------------------------------------- file path properties
\* worker w takes one iteration of the loop of update_file_path
RowStep(w) == workers[w].pc = "updating" /\ workers'[w] # workers[w]
Rewritten(node, root_path) ==
  [node EXCEPT !.props = [@ EXCEPT !["file_path"] = StripPrefix(@, root_path)]]
Rewritable(node, task, root_path) ==
  /\ task \in node.labels
  /\ HasProp(node.props, "file_path")
  /\ StartsWith(node.props["file_path"], root_path)

\* C28: an iteration of update_file_path(root) changes no relationship and
\* adds or removes no node; a node it changes is of the handler's generation,
\* has a file_path that starts with root, and differs afterwards only in
\* that file_path, which has lost the leading root once; and the node of the
\* row, if it still is as the query saw it, is rewritten.
C28_UpdateFilePath ==
  [][\A w \in DOMAIN workers :
       RowStep(w) =>
         LET task == workers[w].task_id
             root_path == workers[w].op.start_name
             row == Head(workers[w].rows)
         IN  /\ graph'.rels = graph.rels
             /\ NodeIds(graph') = NodeIds(graph)
             /\ \A n \in NodeIds(graph) :
                  graph'.nodes[n] # graph.nodes[n] =>
                    /\ Rewritable(graph.nodes[n], task, root_path)
                    /\ graph'.nodes[n] = Rewritten(graph.nodes[n], root_path)
             /\ (/\ row.n \in NodeIds(graph)
                 /\ Rewritable(graph.nodes[row.n], task, root_path)
                 /\ graph.nodes[row.n].full_name = row.full_name
                 /\ graph.nodes[row.n].props["file_path"] = row.file_path)
                  => graph'.nodes[row.n] = Rewritten(graph.nodes[row.n], root_path)]_vars

\* ------------------------------------------------ inheritance properties
InheritsRels(g, task, cur_class_full_name, base_class_full_name) ==
  {r \in RelIds(g) : /\ g.rels[r].type = "INHERITS"
                     /\ g.rels[r].start \in MatchingNodes(g, task, cur_class_full_name)
                     /\ g.rels[r].end \in MatchingNodes(g, task, base_class_full_name)}

\* C29: every entry of class_inherited[C] is the full name of a resolved
\* base (never the null of an unresolved one), and C has an INHERITS
\* relationship to it in the session's generation.
C29_RecordedBasesResolved ==
  \A pair \in PairsOf(class_inherited) :
    /\ pair[2] # NoName
    /\ InheritsRels(graph, task_id, pair[1], pair[2]) # {}

\* ------------------------------------------------ propagation properties
\* C30: the propagation over any map of bases comes to its end, cycles and
\* self-inheritance included, and fetches the member rows of a pair
\* (descendant, ancestor) at most once.
C30_PropagationTerminates ==
  /\ <>(pc.phase = "done")
  /\ [](\A a, b \in DOMAIN pc.fetches : a # b => pc.fetches[a] # pc.fetches[b])
\* the propagation is through on a map in which a class lists itself and
\* two classes list each other, and it has descended
C30_Witness ==
  /\ pc.phase = "done"
  /\ \E i \in DOMAIN class_inherited : class_inherited[i].k \in Range(class_inherited[i].v)
  /\ \E i, j \in DOMAIN class_inherited :
       /\ i # j
       /\ class_inherited[i].k \in Range(class_inherited[j].v)
       /\ class_inherited[j].k \in Range(class_inherited[i].v)
  /\ Len(pc.fetches) > Cardinality({pc.fetches[a][1] : a \in DOMAIN pc.fetches})
  /\ processed_relations = Range(pc.fetches)

\* ------------------------------------------- containment, call by call
\* build_modules_contain one call or one resolution attempt per step, the
\* recursion kept as the stack of the files whose import loop is running.
\* Two packages p and q; p/__init__.py defines f, q/__init__.py defines g;
\* each imports names from the other, resolved (f, g), unresolved (zzz) or
\* all (*), MaxListed names in total; either file may fail to parse.
FileP == <<"p", "__init__">>
FileQ == <<"q", "__init__">>
NamesFrom(module, defined) == {Imp(module, defined), Imp(module, "zzz"), Imp(module, "*")}
PackageImports ==
  {z \in SeqsUpTo(NamesFrom(<<"q">>, "g"), MaxImports) \X SeqsUpTo(NamesFrom(<<"p">>, "f"), MaxImports) :
     Len(z[1]) + Len(z[2]) <= MaxListed}
PackageFile(ok, imports, m, defined, file_full_path) ==
  [ok |-> ok, imports |-> imports, classes |-> <<>>,
   symbols |-> <<ModuleSym(m, file_full_path), TopSym("FUNCTION", m, defined, file_full_path)>>]

InitCycle ==
  /\ \E z \in PackageImports, ok_p, ok_q \in BOOLEAN :
       files = (FileP :> PackageFile(ok_p, z[1], <<"p">>, "f", FileP))
               @@ (FileQ :> PackageFile(ok_q, z[2], <<"q">>, "g", FileQ))
  /\ py_files \in Perms({FileP, FileQ})
  /\ graph = IndexedGraph(G1, AllSymbols(files, py_files))
  /\ task_id = G1
  /\ visited = <<>>
  /\ class_inherited = <<>>
  /\ processed_relations = {}
  /\ pc = [phase |-> "cycle", i |-> 1, stack |-> <<>>, parsed |-> <<>>, attempts |-> <<>>]
  /\ snap = graph
  /\ NoWorkers
  /\ NoUpdate

\* self.visited.append(file_full_path), ahead of read_text and ast.parse
MarkVisited_after_parse(seen, file_full_path, ok) ==
  IF ok THEN Append(seen, file_full_path) ELSE seen

MarkVisited(seen, file_full_path, ok) == Append(seen, file_full_path)

\* the head of build_modules_contain(file_full_path) called with the frames
\* st below it: nothing for a visited file; else the file is marked and
\* parsed, and its import loop starts when the parse succeeded
EnterFile(st, file_full_path) ==
  IF file_full_path \in Range(visited)
  THEN [visited |-> visited, stack |-> st, parsed |-> pc.parsed]
  ELSE [visited |-> MarkVisited(visited, file_full_path, files[file_full_path].ok),
        stack |-> IF files[file_full_path].ok
                  THEN Append(st, [file |-> file_full_path, k |-> 1, stage |-> "first"])
                  ELSE st,
        parsed |-> Append(pc.parsed, file_full_path)]

\* one call of _build_modules_contain_edge or _build_modules_contain_edge_all
TryImport(g, cur_module_full_name, imp, sel) ==
  IF imp.name = "*"
  THEN _build_modules_contain_edge_all(g, task_id, imp.module, cur_module_full_name, sel)
  ELSE _build_modules_contain_edge(g, task_id, imp.module, imp.name, cur_module_full_name, sel)

TopFrame == pc.stack[Len(pc.stack)]
SetTop(frame) == [pc.stack EXCEPT ![Len(pc.stack)] = frame]
CycleIdle == UNCHANGED <<files, py_files, task_id, class_inherited, processed_relations, snap, lock, workers, query, sessions, connection, future_to_file, pulled_inherited, container, workflow, bus>>

\* for py_file in py_files: self.build_modules_contain(py_file)
TopFile ==
  /\ pc.phase = "cycle"
  /\ pc.stack = <<>>
  /\ pc.i <= Len(py_files)
  /\ \E e \in {EnterFile(<<>>, py_files[pc.i])} :
       /\ visited' = e.visited
       /\ pc' = [pc EXCEPT !.i = @ + 1, !.stack = e.stack, !.parsed = e.parsed]
  /\ UNCHANGED graph
  /\ CycleIdle

\* the attempt in the condition of the if; when it returns False and the
\* target package has an __init__ file, build_modules_contain is called on it
FirstTry ==
  /\ pc.phase = "cycle"
  /\ pc.stack # <<>>
  /\ TopFrame.stage = "first"
  /\ TopFrame.k <= Len(files[TopFrame.file].imports)
  /\ \E sel \in PassPolicies, imp \in {files[TopFrame.file].imports[TopFrame.k]} :
       \E found \in {IF imp.name = "*" THEN ContainAllFound(graph, task_id, imp.module, sel)
                     ELSE ContainEdgeFound(graph, task_id, imp.module, imp.name, sel)},
          waiting \in {SetTop([TopFrame EXCEPT !.stage = "second"])} :
         \E e \in {IF ~found /\ InitFileOf(imp.module) \in DOMAIN files
                   THEN EnterFile(waiting, InitFileOf(imp.module))
                   ELSE [visited |-> visited, stack |-> waiting, parsed |-> pc.parsed]} :
           /\ graph' = TryImport(graph, get_dotted_name(TopFrame.file), imp, sel)
           /\ visited' = e.visited
           /\ pc' = [pc EXCEPT !.stack = e.stack, !.parsed = e.parsed,
                               !.attempts = Append(@, <<TopFrame.file, TopFrame.k>>)]
  /\ CycleIdle

\* the attempt after the if, made in every case
SecondTry ==
  /\ pc.phase = "cycle"
  /\ pc.stack # <<>>
  /\ TopFrame.stage = "second"
  /\ \E sel \in PassPolicies :
       graph' = TryImport(graph, get_dotted_name(TopFrame.file),
                          files[TopFrame.file].imports[TopFrame.k], sel)
  /\ pc' = [pc EXCEPT !.stack = SetTop([TopFrame EXCEPT !.k = @ + 1, !.stage = "first"]),
                      !.attempts = Append(@, <<TopFrame.file, TopFrame.k>>)]
  /\ UNCHANGED visited
  /\ CycleIdle

\* the import loop of the file on top is through
ReturnFile ==
  /\ pc.phase = "cycle"
  /\ pc.stack # <<>>
  /\ TopFrame.stage = "first"
  /\ TopFrame.k > Len(files[TopFrame.file].imports)
  /\ pc' = [pc EXCEPT !.stack = Front(@)]
  /\ UNCHANGED <<graph, visited, container, workflow, bus>>
  /\ CycleIdle

NextCycle == TopFile \/ FirstTry \/ SecondTry \/ ReturnFile

SpecCycle == InitCycle /\ [][NextCycle]_vars
\* the pass is one thread: it goes on while it has a call to make or to leave
FairCycle == SpecCycle /\ WF_vars(NextCycle)

\* ------------------------------------------------ containment termination
CycleDone == pc.phase = "cycle" /\ pc.stack = <<>> /\ pc.i > Len(py_files)
Occurrences(s, x) == Cardinality({i \in DOMAIN s : s[i] = x})
\* the pass call by call ends in what build_modules_contain computes
CycleAgrees ==
  CycleDone =>
    [graph |-> graph, visited |-> visited]
      = ContainAll([graph |-> snap, visited |-> <<>>], files, task_id, py_files)

\* C31: the containment pass comes to its end on every import graph,
\* package __init__ files importing from each other included; each file is
\* parsed at most once in a session, a file that failed to parse too, and
\* each imported name gets at most two resolution attempts.
C31_ContainTerminates ==
  /\ <>CycleDone
  /\ [](\A f \in Range(pc.parsed) : Occurrences(pc.parsed, f) <= 1)
  /\ [](\A a \in Range(pc.attempts) : Occurrences(pc.attempts, a) <= 2)
\* the pass is through on two packages that import an unresolved name from
\* each other: both were parsed, the second from inside the first, and
\* every imported name was tried twice
C31_Witness ==
  /\ CycleDone
  /\ Imp(<<"q">>, "zzz") \in Range(files[FileP].imports)
  /\ Imp(<<"p">>, "zzz") \in Range(files[FileQ].imports)
  /\ Range(pc.parsed) = {FileP, FileQ}
  /\ Len(pc.attempts) = 2 * (Len(files[FileP].imports) + Len(files[FileQ].imports))
  /\ Len(pc.attempts) > 0

\* ------------------------------------------- clear_task_data on any store
\* Stores of up to MaxStored nodes, each tagged with one generation alone,
\* with one generation and a kind, with both generations and a kind, or
\* with the other generation; consecutive nodes are joined by a relationship.
StoredLabels == {{G1}, {G1, "FUNCTION"}, {G1, G2, "FUNCTION"}, {G2, "FUNCTION"}}
ClearStores ==
  {StoredGraph([i \in DOMAIN ls |-> StoredNode(ls[i], IF i = 1 THEN <<"a">> ELSE <<"b">>)],
               [j \in 1..(Len(ls) - 1) |-> StoredRel(j, j + 1)]) :
     ls \in UNION {[1..k -> StoredLabels] : k \in 0..MaxStored}}

InitClear ==
  /\ graph \in ClearStores
  /\ workers = [w \in Workers |-> [pc |-> "idle", task_id |-> G1, op |-> NoCall, calls |-> 0,
                                  lock_acquired |-> FALSE, rows |-> <<>>]]
  /\ lock = NoHolder
  /\ connection = Connected
  /\ NoApp
  /\ query = NoQuery
  /\ sessions = NoSessions
  /\ future_to_file = <<>>
  /\ files = <<>>
  /\ py_files = <<>>
  /\ task_id = ""
  /\ visited = <<>>
  /\ class_inherited = <<>>
  /\ processed_relations = {}
  /\ pc = [phase |-> "clear"]
  /\ snap = EmptyGraph
  /\ NoUpdate

\* a process calls clear_task_data
ClearCalled(w) ==
  /\ Acquire(w)
  /\ workers'[w].op.call = "clear_task_data"

NextClear == \E w \in Workers : ClearCalled(w) \/ ClearBatch(w) \/ Release(w)

SpecClear == InitClear /\ [][NextClear]_vars
\* the process inside the loop goes on with its next pair of queries
FairClear == SpecClear /\ \A w \in Workers : WF_vars(ClearBatch(w))

\* ------------------------------------------------ clear_task_data properties
ClearReturned(w) == workers[w].pc = "done" /\ workers[w].op.call = "clear_task_data"

\* C32: clear_task_data(G, batch_size) returns on every finite store,
\* whatever the number of G-tagged nodes relative to batch_size, and when
\* it returns no node carries the tag G.
C32_ClearTerminates ==
  /\ \A w \in Workers : InCall(w, "clear_task_data") ~> ClearReturned(w)
  /\ [](\A w \in Workers : ClearReturned(w) => Tagged(graph, workers[w].op.task) = {})
\* a call has returned on a store that held more tagged nodes than one
\* batch takes, some with the tag alone
C32_Witness ==
  \E w \in Workers :
    /\ ClearReturned(w)
    /\ Cardinality(Tagged(snap, workers[w].op.task)) > BatchSize
    /\ DeleteNodeMatches(snap, workers[w].op.task) # {}
    /\ RemoveLabelMatches(snap, workers[w].op.task) # {}
    /\ NodeIds(graph) # {}

\* ------------------------------------------- reconciliation, two changed files
\* Three files: f defines foo and Base; u and w each may import foo and may
\* derive a class from Base. Generation g1 was built in full; then f
\* changes, alone or together with w, u never: the nodes of the unchanged
\* files carry both generations, the changed files are indexed anew under
\* g2, and AstUpdateEdge(g1, g2).build_edge(change_files) starts.
FileW == <<"w">>
WVersion(imports_foo, has_kid) ==
  [ok |-> TRUE,
   imports |-> (IF imports_foo THEN <<Imp(<<"f">>, "foo")>> ELSE <<>>)
               \o (IF has_kid THEN <<Imp(<<"f">>, "Base")>> ELSE <<>>),
   classes |-> IF has_kid
               THEN <<[name |-> "Kid", bases |-> <<[simple |-> TRUE, id |-> "Base"]>>]>>
               ELSE <<>>,
   symbols |-> <<ModuleSym(<<"w">>, FileW)>>
               \o (IF has_kid THEN <<TopSym("CLASS", <<"w">>, "Kid", FileW)>> ELSE <<>>)]
ChangeLists == {<<FileF>>, <<FileW>>, <<FileF, FileW>>, <<FileW, FileF>>}

InitMigrate ==
  /\ \E has_base \in BOOLEAN, u_foo \in BOOLEAN, has_child \in BOOLEAN, w_foo \in BOOLEAN,
        has_kid \in BOOLEAN :
       files = (FileF :> FVersion(TRUE, has_base, FALSE))
               @@ (FileU :> UVersion(u_foo, has_child /\ has_base))
               @@ (FileW :> WVersion(w_foo, has_kid /\ has_base))
  /\ py_files \in ChangeLists
  /\ snap = _run(IndexedGraph(G1, AllSymbols(files, <<FileF, FileU, FileW>>)), files, G1,
                 <<FileF, FileU, FileW>>).graph
  /\ graph = IndexInto(CarryForward(snap, G1, G2, Range(py_files)), G2,
                       AllSymbols(files, py_files))
  /\ task_id = G2
  /\ visited = <<>>
  /\ class_inherited = <<>>
  /\ processed_relations = {}
  /\ pc = [phase |-> "pull", i |-> 1, j |-> 1]
  /\ NoWorkers
  /\ NoUpdate

NextMigrate ==
  \/ PullForward
  \/ FoldInherited
  \/ RunContain
  \/ RunInherited
  \/ RunPropagate

SpecMigrate == InitMigrate /\ [][NextMigrate]_vars

\* ------------------------------------------------ pull-forward properties
FileOfNode(g, n) == g.nodes[n].props["file_path"]
\* the relationships of g2 that a step has created
CreatedRels(g, h) == {r \in RelIds(h) \ RelIds(g) : TRUE}
MigratedFrom(g, files_in) ==
  {r \in RelIds(g) \ RelIds(IndexInto(CarryForward(snap, G1, G2, Range(py_files)), G2,
                                       AllSymbols(files, py_files))) :
     FileOfNode(g, g.rels[r].start) \in files_in}

\* C33: every relationship that pull-forward creates leads from a node of
\* a file outside the changed files to a node of a changed file; an old
\* relationship whose source lies in another changed file is not migrated.
C33_PullForwardEndpoints ==
  [][pc.phase = "pull" =>
       \A r \in CreatedRels(graph, graph') :
          /\ FileOfNode(graph', graph'.rels[r].start) \notin Range(py_files)
          /\ FileOfNode(graph', graph'.rels[r].end) \in Range(py_files)]_vars
\* pull-forward is through for the changed files f and w: the old
\* generation held a relationship from w to a symbol of f and one from u to
\* it; the one from u was re-created in g2
C33_Witness ==
  /\ pc.phase = "fold"
  /\ Range(py_files) = {FileF, FileW}
  /\ \E r \in RelIds(snap) :
       /\ FileOfNode(snap, snap.rels[r].start) = FileW
       /\ FileOfNode(snap, snap.rels[r].end) = FileF
  /\ MigratedFrom(graph, {FileU}) # {}
  /\ MigratedFrom(graph, {FileW}) = {}

\* ------------------------------------------- a read beside a mutation
\* Two processes with FileLock handlers on one lockfile: each calls add_node
\* or execute_query. execute_query comes to 'with self.lock' like every
\* mutating call, runs the query inside it and leaves it.
ReadRows(g, t) == {g.nodes[n].full_name : n \in Tagged(g, t)}

\* response = self.graphDB.execute_query(query): the call is made
ReadCalled(w) ==
  /\ workers[w].pc = "idle"
  /\ CallsMade(workers, Workers) < MaxCalls
  /\ workers' = [workers EXCEPT ![w].pc = "reading", ![w].calls = @ + 1,
                                ![w].op = Call("execute_query", "", NoName, NoName, NoProps, "")]
  /\ UNCHANGED <<graph, lock, snap, container, workflow, bus>>
  /\ SessionIdle

\* FileLock.__enter__ of execute_query: lock.acquire(blocking=True) returns
\* when the lockfile is free, and only then
ReadEnters(w) ==
  /\ workers[w].pc = "reading"
  /\ lock = NoHolder
  /\ lock' = w
  /\ workers' = [workers EXCEPT ![w].pc = "locked", ![w].lock_acquired = TRUE]
  /\ UNCHANGED <<graph, snap, container, workflow, bus>>
  /\ SessionIdle

\* result = self.graph.run(query); return [record for record in result]
ReadRuns(w) ==
  /\ InCall(w, "execute_query")
  /\ \E rows \in Perms(ReadRows(graph, workers[w].task_id)) :
       workers' = [workers EXCEPT ![w].rows = rows, ![w].pc = "done"]
  /\ UNCHANGED <<graph, lock, snap, container, workflow, bus>>
  /\ SessionIdle

\* a process calls add_node
WriteCalled(w) ==
  /\ Acquire(w)
  /\ workers'[w].op.call = "add_node"

NextRead ==
  \E w \in Workers :
    \/ ReadCalled(w)
    \/ ReadEnters(w)
    \/ ReadRuns(w)
    \/ WriteCalled(w)
    \/ AddNode(w)
    \/ Release(w)

SpecRead == InitStore /\ [][NextRead]_vars

\* ------------------------------------------------ read properties
\* C34: a read through execute_query is never blocked by a writer: while
\* another process holds the lockfile for a mutation, the read can go on.
C34_ReadersNotBlocked ==
  \A w \in Workers :
    (workers[w].pc = "reading" /\ \E other \in Workers \ {w} : InCall(other, "add_node"))
      => ENABLED ReadEnters(w)

\* ------------------------------------------------ update_edge properties
NoNodeNamed(g, task, full_name) == MatchingNodes(g, task, full_name) = {}
\* the inheritance and the propagation phase of a run leave the nodes alone
PhasesCreateNoNodes ==
  [][pc.phase \in {"inherit", "propagate"} => graph'.nodes = graph.nodes]_vars

\* C35: update_edge creates no node; when the source or the target name
\* has no node in the handler's generation it leaves nodes and
\* relationships as they are, so a relationship it writes joins two nodes
\* that existed before the call.
C35_UpdateEdgeCreatesNoNode ==
  [][\A w \in Workers :
       (InCall(w, "update_edge") /\ workers'[w].pc = "done") =>
          /\ graph'.nodes = graph.nodes
          /\ (\/ NoNodeNamed(graph, workers[w].task_id, workers[w].op.start_name)
              \/ NoNodeNamed(graph, workers[w].task_id, workers[w].op.end_name))
               => /\ graph' = graph
                  /\ \A sel \in FirstPolicies :
                       ~update_edge_returns_rel(graph, workers[w].task_id,
                                                workers[w].op.start_name,
                                                workers[w].op.end_name, sel)
          /\ \A r \in RelIds(graph') \ RelIds(graph) :
               {graph'.rels[r].start, graph'.rels[r].end} \subseteq NodeIds(graph)]_vars
\* update_edge has returned for a source that has a node and a target that
\* has none in the generation, on a store that holds nodes: nothing changed
C35_Witness ==
  \E w \in Workers :
    /\ workers[w].pc = "done"
    /\ workers[w].op.call = "update_edge"
    /\ ~NoNodeNamed(graph, workers[w].task_id, workers[w].op.start_name)
    /\ NoNodeNamed(graph, workers[w].task_id, workers[w].op.end_name)
    /\ graph = snap

\* ------------------------------------------- update_file_path, call after call
\* One handler alone calls update_file_path(root_path) again and again on a
\* store of two nodes whose file_path lies below the root, below the root
\* twice over, or elsewhere.
StoredPaths ==
  {RootPath \o <<"/", "a">>, RootPath \o RootPath \o <<"/", "x">>, <<"/", "q", "/", "b">>}
PathStores ==
  {StoredGraph(<<StoredFile(la, <<"a">>, pa), StoredFile(lb, <<"b">>, pb)>>, <<>>) :
     la \in {{G1, "FUNCTION"}, {G1, G2, "FUNCTION"}}, lb \in {{G1, "FUNCTION"}, {G2, "FUNCTION"}},
     pa \in StoredPaths, pb \in StoredPaths}
RootPaths == {RootPath, <<"/">>}

\* the loop of update_file_path over the rows of its query
RECURSIVE update_file_path(_, _, _, _, _)
update_file_path(g, task, root_path, nodes_with_file_path, sel) ==
  IF nodes_with_file_path = <<>> THEN g
  ELSE update_file_path(update_file_path_row(g, task, root_path, nodes_with_file_path[1], sel),
                        task, root_path, Tail(nodes_with_file_path), sel)

InitPaths ==
  /\ graph \in PathStores
  /\ task_id \in Generations
  /\ \E root_path \in RootPaths : pc = [phase |-> "paths", root_path |-> root_path, calls |-> 0]
  /\ snap = graph
  /\ files = <<>>
  /\ py_files = <<>>
  /\ visited = <<>>
  /\ class_inherited = <<>>
  /\ processed_relations = {}
  /\ NoWorkers
  /\ NoUpdate

\* handler.update_file_path(root_path), from its query to its last update
UpdateFilePath ==
  /\ pc.phase = "paths"
  /\ pc.calls < MaxCalls
  /\ \E rows \in Perms(FilePathRows(graph, task_id)), sel \in FirstPolicies :
       graph' = update_file_path(graph, task_id, pc.root_path, rows, sel)
  /\ snap' = IF pc.calls = 0 THEN graph' ELSE snap
  /\ pc' = [pc EXCEPT !.calls = @ + 1]
  /\ UNCHANGED <<files, py_files, task_id, visited, class_inherited, processed_relations, lock, workers, query, sessions, connection, future_to_file, pulled_inherited, container, workflow, bus>>

NextPaths == UpdateFilePath

SpecPaths == InitPaths /\ [][NextPaths]_vars

\* ------------------------------------------------ update_file_path, twice
\* snap is the store after the first call
\* C36: update_file_path(root) called twice leaves the file_path values
\* that one call leaves.
C36_UpdateFilePathIdempotent == pc.calls >= 2 => graph = snap
\* the same, for stores in which no path holds the root twice in front
RootOnce ==
  (/\ pc.calls >= 2
   /\ \A n \in NodeIds(snap) : ~StartsWith(snap.nodes[n].props["file_path"], pc.root_path))
    => graph = snap

\* ------------------------------------------- DIContainer.resolve in threads
\* One interface is registered with scope SINGLETON, without dependencies;
\* the threads call resolve on it. A thread may be suspended between any two
\* statements of resolve: the method takes no lock.
Threads == {"t1", "t2"}
Interface == "IndexerProtocol"
NoInstance == 0
SINGLETON == "singleton"
TRANSIENT == "transient"
IdleThread == [pc |-> "idle", instance |-> NoInstance, calls |-> 0, returned |-> <<>>]

InitResolve ==
  /\ \E scope \in {SINGLETON, TRANSIENT} :
       container = [registrations |-> (Interface :> [scope |-> scope, initialized |-> FALSE]),
                    instances |-> <<>>, created |-> 0,
                    threads |-> [th \in Threads |-> IdleThread]]
  /\ workflow = NoWorkflow
  /\ bus = NoBus
  /\ graph = EmptyGraph
  /\ files = <<>>
  /\ py_files = <<>>
  /\ task_id = ""
  /\ visited = <<>>
  /\ class_inherited = <<>>
  /\ processed_relations = {}
  /\ pc = [phase |-> "resolve"]
  /\ snap = EmptyGraph
  /\ lock = NoHolder
  /\ workers = <<>>
  /\ future_to_file = <<>>
  /\ sessions = NoSessions
  /\ query = NoQuery
  /\ connection = Connected
  /\ NoUpdate

ContainerIdle == UNCHANGED <<graph, files, py_files, task_id, visited, class_inherited, processed_relations, pc, pulled_inherited, lock, workers, query, sessions, connection, future_to_file, snap, workflow, bus>>
Thread(th) == container.threads[th]

\* a thread calls container.resolve(Interface)
ResolveCalled(th) ==
  /\ Thread(th).pc = "idle"
  /\ Thread(th).calls < MaxCalls
  /\ container' = [container EXCEPT !.threads[th].pc = "check", !.threads[th].calls = @ + 1]
  /\ ContainerIdle

\* if interface_type in self._instances: return self._instances[interface_type]
CheckInstances(th) ==
  /\ Thread(th).pc = "check"
  /\ container' =
       IF Interface \in DOMAIN container.instances
       THEN [container EXCEPT !.threads[th].pc = "idle",
                              !.threads[th].returned = Append(@, container.instances[Interface])]
       ELSE [container EXCEPT !.threads[th].pc = "create"]
  /\ ContainerIdle

\* instance = self._create_instance(registration): the constructor returns a
\* new object, or raises and None is returned
CreateInstance(th) ==
  /\ Thread(th).pc = "create"
  /\ \E raised \in BOOLEAN :
       container' =
         IF raised THEN [container EXCEPT !.threads[th].pc = "store",
                                          !.threads[th].instance = NoInstance]
         ELSE [container EXCEPT !.threads[th].pc = "store",
                                !.threads[th].instance = container.created + 1,
                                !.created = @ + 1]
  /\ ContainerIdle

\* if registration.scope == ComponentScope.SINGLETON:
\*     self._instances[interface_type] = instance
StoreInstance(instances, scope, instance) ==
  IF scope = SINGLETON THEN (Interface :> instance) ELSE instances

\* 'if instance is not None: ...' and 'return instance'
ResolveReturns(th) ==
  /\ Thread(th).pc = "store"
  /\ container' =
       [container EXCEPT
          !.instances = IF Thread(th).instance # NoInstance
                        THEN StoreInstance(@, container.registrations[Interface].scope,
                                           Thread(th).instance)
                        ELSE @,
          !.registrations[Interface].initialized = @ \/ Thread(th).instance # NoInstance,
          !.threads[th].pc = "idle",
          !.threads[th].instance = NoInstance,
          !.threads[th].returned = Append(@, Thread(th).instance)]
  /\ ContainerIdle

NextResolve ==
  \E th \in Threads :
    \/ ResolveCalled(th)
    \/ CheckInstances(th)
    \/ CreateInstance(th)
    \/ ResolveReturns(th)

SpecResolve == InitResolve /\ [][NextResolve]_vars

\* ------------------------------------------------ container properties
ResolvedInstances == UNION {Range(Thread(th).returned) : th \in Threads} \ {NoInstance}
\* C37: for a SINGLETON registration at most one instance is ever created
\* and every resolve call returns that instance, also when threads call
\* resolve before the first instance is stored.
C37_SingletonOnce ==
  container.registrations[Interface].scope = SINGLETON =>
    /\ container.created <= 1
    /\ Cardinality(ResolvedInstances) <= 1
\* the same while one thread alone has called resolve
OneThreadResolves ==
  (\E th \in Threads : \A other \in Threads \ {th} : Thread(other).calls = 0)
    => C37_SingletonOnce

\* ------------------------------------------- Workflow.execute
\* A workflow of five steps: a is the start step; b and c are success
\* successors (of a, and c of a or of b), e and f the error steps of a and
\* of b. Each step's execute either returns or raises; no step requires data.
StepIds == {"a", "b", "c", "e", "f"}
Step(raises, next_steps, error_steps) ==
  [raises |-> raises, next_steps |-> next_steps, error_steps |-> error_steps]
Workflows ==
  {("a" :> Step(r["a"], na, ea)) @@ ("b" :> Step(r["b"], nb, eb))
     @@ ("c" :> Step(r["c"], <<>>, <<>>)) @@ ("e" :> Step(r["e"], <<>>, <<>>))
     @@ ("f" :> Step(r["f"], <<>>, <<>>)) :
     r \in [StepIds -> BOOLEAN], na \in {<<>>, <<"b">>, <<"b", "c">>}, ea \in {<<>>, <<"e">>},
     nb \in {<<>>, <<"c">>}, eb \in {<<>>, <<"f">>}}
StepEvent(step, event) == [step |-> step, event |-> event]

\* Workflow._execute_step on the run st = [status, log, raised]: status is
\* the status last set in a step context of the step, log the order of the
\* events, raised whether the call ends by raising
RECURSIVE _execute_step(_, _, _)
RECURSIVE ExecuteNextSteps(_, _, _)
RECURSIVE ExecuteErrorSteps(_, _, _)
\* for next_step in step.next_steps: last_result = self._execute_step(next_step, context)
ExecuteNextSteps(steps, st, next_steps) ==
  IF next_steps = <<>> THEN st
  ELSE LET after == _execute_step(steps, st, next_steps[1])
       IN  IF after.raised THEN after ELSE ExecuteNextSteps(steps, after, Tail(next_steps))
\* for error_step in step.error_steps: try: self._execute_step(error_step, context)
\* except Exception: logger.error(...)
ExecuteErrorSteps(steps, st, error_steps) ==
  IF error_steps = <<>> THEN st
  ELSE LET after == _execute_step(steps, st, error_steps[1])
       IN  ExecuteErrorSteps(steps, [after EXCEPT !.raised = FALSE], Tail(error_steps))
_execute_step(steps, st, step) ==
  LET running == [st EXCEPT !.status[step] = "running",
                            !.log = Append(@, StepEvent(step, "execute"))]
      tried == IF steps[step].raises THEN [running EXCEPT !.raised = TRUE]
               ELSE ExecuteNextSteps(steps, [running EXCEPT !.status[step] = "completed"],
                                     steps[step].next_steps)
      failed == [tried EXCEPT !.status[step] = "failed", !.raised = FALSE,
                              !.log = Append(@, StepEvent(step, "failed"))]
  IN  IF ~tried.raised THEN tried
      ELSE IF steps[step].error_steps # <<>>
      THEN ExecuteErrorSteps(steps, failed, steps[step].error_steps)
      ELSE [failed EXCEPT !.raised = TRUE]

InitWorkflow ==
  /\ \E steps \in Workflows :
       workflow = [steps |-> steps, start_step |-> "a", context |-> "pending",
                   status |-> [s \in StepIds |-> "pending"], log |-> <<>>, raised |-> FALSE]
  /\ container = NoContainer
  /\ bus = NoBus
  /\ graph = EmptyGraph
  /\ files = <<>>
  /\ py_files = <<>>
  /\ task_id = ""
  /\ visited = <<>>
  /\ class_inherited = <<>>
  /\ processed_relations = {}
  /\ pc = [phase |-> "workflow"]
  /\ snap = EmptyGraph
  /\ lock = NoHolder
  /\ workers = <<>>
  /\ future_to_file = <<>>
  /\ sessions = NoSessions
  /\ query = NoQuery
  /\ connection = Connected
  /\ NoUpdate

\* Workflow.execute(data): result = self._execute_step(self.start_step, context),
\* then COMPLETED, or FAILED when the call raised
Execute ==
  /\ workflow.context = "pending"
  /\ \E run \in {_execute_step(workflow.steps,
                               [status |-> workflow.status, log |-> workflow.log,
                                raised |-> FALSE], workflow.start_step)} :
       workflow' = [workflow EXCEPT !.status = run.status, !.log = run.log,
                                    !.raised = run.raised,
                                    !.context = IF run.raised THEN "failed" ELSE "completed"]
  /\ UNCHANGED <<graph, files, py_files, task_id, visited, class_inherited, processed_relations, pc, pulled_inherited, lock, workers, query, sessions, connection, future_to_file, snap, container, bus>>

NextWorkflow == Execute

SpecWorkflow == InitWorkflow /\ [][NextWorkflow]_vars

\* ------------------------------------------------ workflow properties
\* C38: a step is marked FAILED, and its error steps run, only when the
\* step's own execute raised; an exception of a success successor leaves
\* the completed step as it is.
C38_ErrorStepsLocal ==
  \A step \in StepIds :
    (\E i \in DOMAIN workflow.log : workflow.log[i] = StepEvent(step, "failed"))
      => workflow.steps[step].raises

\* the same for the workflows in which no success successor raises
SuccessorsReturn ==
  (~workflow.steps["b"].raises /\ ~workflow.steps["c"].raises) => C38_ErrorStepsLocal

\* ------------------------------------------- EventBus, one event type
\* Three callbacks; the body of each returns, raises, or calls subscribe or
\* unsubscribe for one callback (itself included) and returns. One thread
\* subscribes, unsubscribes and publishes.
Callbacks == {"c1", "c2", "c3"}
Bodies ==
  {[does |-> "returns", target |-> ""], [does |-> "raises", target |-> ""]}
  \cup {[does |-> d, target |-> c] : d \in {"subscribe", "unsubscribe"}, c \in Callbacks}
NoPublish == [active |-> FALSE, i |-> 0, start |-> <<>>, invoked |-> <<>>, removed |-> {}]

\* EventBus.subscribe: appended unless already in the list
subscribe(subscribers, callback) ==
  IF callback \in Range(subscribers) THEN subscribers ELSE Append(subscribers, callback)
\* EventBus.unsubscribe: list.remove of the callback when it is in the list
unsubscribe(subscribers, callback) ==
  LET Keep(x) == x # callback IN SelectSeq(subscribers, Keep)
\* the list after the body of the callback has run
AfterBody(subscribers, body) ==
  IF body.does = "subscribe" THEN subscribe(subscribers, body.target)
  ELSE IF body.does = "unsubscribe" THEN unsubscribe(subscribers, body.target)
  ELSE subscribers

InitBus ==
  /\ \E bodies \in [Callbacks -> Bodies] :
       bus = [subscribers |-> <<>>, bodies |-> bodies, publish |-> NoPublish]
  /\ container = NoContainer
  /\ workflow = NoWorkflow
  /\ graph = EmptyGraph
  /\ files = <<>>
  /\ py_files = <<>>
  /\ task_id = ""
  /\ visited = <<>>
  /\ class_inherited = <<>>
  /\ processed_relations = {}
  /\ pc = [phase |-> "bus"]
  /\ snap = EmptyGraph
  /\ lock = NoHolder
  /\ workers = <<>>
  /\ future_to_file = <<>>
  /\ sessions = NoSessions
  /\ query = NoQuery
  /\ connection = Connected
  /\ NoUpdate

BusIdle == UNCHANGED <<graph, files, py_files, task_id, visited, class_inherited, processed_relations, pc, pulled_inherited, lock, workers, query, sessions, connection, future_to_file, snap, container, workflow>>

\* subscribe(event_type, callback) from outside a delivery
Subscribe(callback) ==
  /\ ~bus.publish.active
  /\ callback \notin Range(bus.subscribers)
  /\ bus' = [bus EXCEPT !.subscribers = subscribe(@, callback)]
  /\ BusIdle

\* unsubscribe(event_type, callback) from outside a delivery
Unsubscribe(callback) ==
  /\ ~bus.publish.active
  /\ callback \in Range(bus.subscribers)
  /\ bus' = [bus EXCEPT !.subscribers = unsubscribe(@, callback)]
  /\ BusIdle

\* publish(event): 'for callback in self._subscribers[event.event_type]'
\* starts; the loop reads the list itself, position after position
PublishStarts ==
  /\ ~bus.publish.active
  /\ bus.subscribers # <<>>
  /\ bus' = [bus EXCEPT !.publish = [active |-> TRUE, i |-> 1, start |-> bus.subscribers,
                                     invoked |-> <<>>, removed |-> {}]]
  /\ BusIdle

\* one iteration: the callback at the loop's position is called; what it
\* raises is caught and logged
Deliver ==
  /\ bus.publish.active
  /\ bus.publish.i <= Len(bus.subscribers)
  /\ \E callback \in {bus.subscribers[bus.publish.i]} :
       bus' = [bus EXCEPT
                 !.subscribers = AfterBody(@, bus.bodies[callback]),
                 !.publish.i = @ + 1,
                 !.publish.invoked = Append(@, callback),
                 !.publish.removed =
                    IF bus.bodies[callback].does = "unsubscribe"
                    THEN @ \cup ({bus.bodies[callback].target} \cap Range(bus.subscribers))
                    ELSE @]
  /\ BusIdle

\* the loop is past the end of the list: publish returns
PublishReturns ==
  /\ bus.publish.active
  /\ bus.publish.i > Len(bus.subscribers)
  /\ bus' = [bus EXCEPT !.publish.active = FALSE]
  /\ BusIdle

NextBus ==
  \/ \E callback \in Callbacks : Subscribe(callback) \/ Unsubscribe(callback)
  \/ PublishStarts
  \/ Deliver
  \/ PublishReturns

SpecBus == InitBus /\ [][NextBus]_vars

\* ------------------------------------------------ event delivery
\* the callbacks subscribed when the publish started and not unsubscribed
\* during it, in subscription order
DueCallbacks ==
  LET Due(x) == x \notin bus.publish.removed IN SelectSeq(bus.publish.start, Due)
PublishReturned == ~bus.publish.active /\ bus.publish.start # <<>>
\* C39: a publish invokes every callback that was subscribed when it
\* started and was not unsubscribed, exactly once and in subscription
\* order, also when callbacks raise, subscribe or unsubscribe during delivery.
C39_DeliveryComplete ==
  PublishReturned =>
    LET IsDue(x) == x \in Range(DueCallbacks)
    IN  SelectSeq(bus.publish.invoked, IsDue) = DueCallbacks
\* the same for the publishes during which no callback was unsubscribed
NothingRemoved == bus.publish.removed = {} => C39_DeliveryComplete

====
